---- MODULE Spec2Model ----
(***************************************************************************)
(* Auto-trade coordination core of the trading engine: the market-cap      *)
(* guard, the idempotency gate, and the three trigger paths that end in    *)
(* tradingExecutor.executePurchase (re-entry handler, reconciliation       *)
(* cycle, config-save immediate buy).                                      *)
(***************************************************************************)
EXTENDS Integers, Sequences, FiniteSets, TLC

VARIABLES
    now,              \* Date.now() / the store's clock, in milliseconds
    guardPc,          \* position of the guard evaluation under test
    guardIn,          \* its parameters {tokenAddress, tokenBounds}
    guardMetrics,     \* what fetchTokenMetrics resolves to for that call
    guardResult,      \* the AutoTradeMarketCapGuardResult returned
    guardFetchCalls,  \* number of calls made to fetchTokenMetrics
    hasBoundsResult,  \* <<b>> once hasAutoTradeMarketCapBounds(tokenBounds) returned b
    gateStore,        \* idempotency keys in the shared store: key -> expiry (ms)
    callers,          \* in-flight checkAndSet calls of the gate harness
    gateLog,          \* answers given by checkAndSet in the gate harness
    config,           \* agentId -> the autoTrade part of the stored AgentTradingConfig
    procs,            \* handler invocations, in flight or ended: <<p1, p2, ...>>
    purchases,        \* the calls made to tradingExecutor.executePurchase
    interval,         \* this.interval of the reconciliation manager: null or a timer handle
    timers,           \* the runtime's armed interval timers: handle -> next due time (ms)
    timerSeq,         \* number of setInterval calls made so far
    listeners,        \* times boundHandler is registered for 'position_closed'
    reentryShutDown,  \* the re-entry manager's last lifecycle call was its shutdown
    jupiterApiKey,    \* whether process.env.JUPITER_API_KEY is set
    metricsCache,     \* the in-memory Map: tokenAddress -> [metrics, expiresAt]
    fetches,          \* calls of fetchTokenMetrics, in flight or returned
    providerCalls,    \* the requests sent to the metrics provider
    redisStrings,     \* the cache store's string keys: position id -> payload
    redisSets,        \* the cache store's set keys: index key -> set of position ids
    ops               \* calls of the position cache service, in flight or returned

guardVars == <<guardPc, guardIn, guardMetrics, guardResult, guardFetchCalls, hasBoundsResult>>
gateVars == <<gateStore, callers, gateLog>>
trigVars == <<config, procs, purchases>>
schedVars == <<interval, timers, timerSeq, listeners, reentryShutDown>>
metricsVars == <<jupiterApiKey, metricsCache, fetches, providerCalls>>
posVars == <<redisStrings, redisSets, ops>>
svcVars == <<schedVars, metricsVars, posVars>>
vars == <<now, guardVars, gateVars, trigVars, svcVars>>

-----------------------------------------------------------------------------
(* JavaScript values: undefined, null and numbers.                         *)

JsUndefined == [t |-> "undefined", v |-> 0]
JsNull == [t |-> "null", v |-> 0]
Num(n) == [t |-> "number", v |-> n]

\* x != null / x == null in JavaScript: loose equality, so undefined counts as null
IsNullish(x) == x.t \in {"undefined", "null"}

\* a ?? b
Coalesce(a, b) == IF IsNullish(a) THEN b ELSE a

-----------------------------------------------------------------------------
(* Strings are sequences of characters; trim() and toLowerCase() work on   *)
(* them character by character.                                            *)

Lower(c) == CASE c = "A" -> "a" [] c = "B" -> "b" [] c = "T" -> "t" [] OTHER -> c

toLowerCase(s) == [i \in 1..Len(s) |-> Lower(s[i])]

RECURSIVE trimStart(_)
trimStart(s) == IF s # <<>> /\ Head(s) = " " THEN trimStart(Tail(s)) ELSE s

RECURSIVE trimEnd(_)
trimEnd(s) == IF s # <<>> /\ s[Len(s)] = " " THEN trimEnd(SubSeq(s, 1, Len(s) - 1)) ELSE s

trim(s) == trimEnd(trimStart(s))

\* tokenAddress.trim().toLowerCase()
normalizeToken(s) == toLowerCase(trim(s))

\* Token addresses as call sites write them: two tokens, in several casings
TokenAddresses == {<<"t", "a">>, <<"T", "A">>, <<" ", "T", "a">>, <<"t", "b">>, <<"T", "b", " ">>}

-----------------------------------------------------------------------------
(* Market-cap guard                                                        *)

MaxCap == 3

CapValues == {Num(n) : n \in 0..MaxCap}

\* A property of a bounds object: absent (reads as undefined), null or a number
BoundValues == {JsUndefined, JsNull} \cup CapValues

\* tokenBounds: undefined, null, or an object with the two optional properties
BoundsObject(min, max) == [t |-> "object", marketCapMin |-> min, marketCapMax |-> max]
UndefinedBounds == [t |-> "undefined", marketCapMin |-> JsUndefined, marketCapMax |-> JsUndefined]
NullBounds == [t |-> "null", marketCapMin |-> JsUndefined, marketCapMax |-> JsUndefined]
EmptyBounds == BoundsObject(JsUndefined, JsUndefined)
AllBounds == {UndefinedBounds, NullBounds} \cup {BoundsObject(a, b) : a, b \in BoundValues}

\* What fetchTokenMetrics resolves to: null, or TokenMetrics
NoMetrics == [t |-> "null", mcap |-> JsNull, liquidity |-> JsNull, holderCount |-> JsNull]
Metrics(m, l, h) == [t |-> "object", mcap |-> m, liquidity |-> l, holderCount |-> h]
AllMetrics == {NoMetrics} \cup
    {Metrics(m, l, h) : m \in {JsUndefined, JsNull} \cup CapValues, l \in {JsNull, Num(1)}, h \in {JsNull, Num(1)}}

\* The reason strings of the result, under the names the design gives them
no_bounds_configured == "no_market_cap_bounds_configured"
metrics_unavailable == "market_cap_unavailable"
below_min == "market_cap_below_min"
above_max == "market_cap_above_max"
in_range == "market_cap_in_range"

GuardResult(a, r, m) == [allowed |-> a, reason |-> r, marketCap |-> m]
NoResult == [allowed |-> FALSE, reason |-> "none", marketCap |-> JsUndefined]

hasAutoTradeMarketCapBounds_strict(tokenBounds) ==
    IF tokenBounds.t # "object" THEN FALSE
    ELSE tokenBounds.marketCapMin.t # "undefined" \/ tokenBounds.marketCapMax.t # "undefined"

hasAutoTradeMarketCapBounds_truthy(tokenBounds) ==
    IF tokenBounds.t # "object" THEN FALSE
    ELSE \/ tokenBounds.marketCapMin.t = "number" /\ tokenBounds.marketCapMin.v # 0
         \/ tokenBounds.marketCapMax.t = "number" /\ tokenBounds.marketCapMax.v # 0

\* if (!tokenBounds) return false; return min != null || max != null
hasAutoTradeMarketCapBounds(tokenBounds) ==
    IF tokenBounds.t # "object" THEN FALSE
    ELSE ~IsNullish(tokenBounds.marketCapMin) \/ ~IsNullish(tokenBounds.marketCapMax)

\* metrics?.mcap ?? null
resolveMarketCap(metrics) ==
    IF metrics.t = "null" THEN JsNull ELSE Coalesce(metrics.mcap, JsNull)

guardDecision_failOpen(tokenBounds, metrics) ==
    LET marketCap == resolveMarketCap(metrics) IN
    IF IsNullish(marketCap) THEN GuardResult(TRUE, metrics_unavailable, JsNull)
    ELSE IF ~IsNullish(tokenBounds.marketCapMin) /\ marketCap.v < tokenBounds.marketCapMin.v
    THEN GuardResult(FALSE, below_min, marketCap)
    ELSE IF ~IsNullish(tokenBounds.marketCapMax) /\ marketCap.v > tokenBounds.marketCapMax.v
    THEN GuardResult(FALSE, above_max, marketCap)
    ELSE GuardResult(TRUE, in_range, marketCap)

guardDecision_maxAllowed(tokenBounds, metrics) ==
    LET marketCap == resolveMarketCap(metrics) IN
    IF IsNullish(marketCap) THEN GuardResult(FALSE, metrics_unavailable, JsNull)
    ELSE IF ~IsNullish(tokenBounds.marketCapMin) /\ marketCap.v < tokenBounds.marketCapMin.v
    THEN GuardResult(FALSE, below_min, marketCap)
    ELSE IF ~IsNullish(tokenBounds.marketCapMax) /\ marketCap.v > tokenBounds.marketCapMax.v
    THEN GuardResult(TRUE, above_max, marketCap)
    ELSE GuardResult(TRUE, in_range, marketCap)

guardDecision_inclusive(tokenBounds, metrics) ==
    LET marketCap == resolveMarketCap(metrics) IN
    IF IsNullish(marketCap) THEN GuardResult(FALSE, metrics_unavailable, JsNull)
    ELSE IF ~IsNullish(tokenBounds.marketCapMin) /\ marketCap.v <= tokenBounds.marketCapMin.v
    THEN GuardResult(FALSE, below_min, marketCap)
    ELSE IF ~IsNullish(tokenBounds.marketCapMax) /\ marketCap.v >= tokenBounds.marketCapMax.v
    THEN GuardResult(FALSE, above_max, marketCap)
    ELSE GuardResult(TRUE, in_range, marketCap)

\* evaluateAutoTradeMarketCapGuard after fetchTokenMetrics has resolved
guardDecision(tokenBounds, metrics) ==
    LET marketCap == resolveMarketCap(metrics) IN
    IF IsNullish(marketCap) THEN GuardResult(FALSE, metrics_unavailable, JsNull)
    ELSE IF ~IsNullish(tokenBounds.marketCapMin) /\ marketCap.v < tokenBounds.marketCapMin.v
    THEN GuardResult(FALSE, below_min, marketCap)
    ELSE IF ~IsNullish(tokenBounds.marketCapMax) /\ marketCap.v > tokenBounds.marketCapMax.v
    THEN GuardResult(FALSE, above_max, marketCap)
    ELSE GuardResult(TRUE, in_range, marketCap)

\* evaluateAutoTradeMarketCapGuard before any await: the no-bounds early return
guardWithoutBounds == GuardResult(TRUE, no_bounds_configured, JsNull)

(* The guard on its own, with fetchTokenMetrics injected: the call runs to *)
(* the await of fetchTokenMetrics, and resumes when it resolves.           *)

InitGuard ==
    /\ guardPc = "ready"
    /\ guardIn \in [tokenAddress : TokenAddresses, tokenBounds : AllBounds]
    /\ guardMetrics \in AllMetrics
    /\ guardResult = NoResult
    /\ guardFetchCalls = 0
    /\ hasBoundsResult = <<>>

\* a direct call of the exported hasAutoTradeMarketCapBounds
hasAutoTradeMarketCapBoundsCall ==
    /\ hasBoundsResult = <<>>
    /\ guardPc # "idle"
    /\ hasBoundsResult' = <<hasAutoTradeMarketCapBounds(guardIn.tokenBounds)>>
    /\ UNCHANGED <<svcVars, now, guardPc, guardIn, guardMetrics, guardResult, guardFetchCalls, gateVars, trigVars>>

evaluateAutoTradeMarketCapGuard ==
    /\ guardPc = "ready"
    /\ IF ~hasAutoTradeMarketCapBounds(guardIn.tokenBounds)
       THEN /\ guardResult' = guardWithoutBounds
            /\ guardPc' = "returned"
            /\ UNCHANGED guardFetchCalls
       ELSE /\ guardFetchCalls' = guardFetchCalls + 1
            /\ guardPc' = "awaitMetrics"
            /\ UNCHANGED guardResult
    /\ UNCHANGED <<svcVars, now, guardIn, guardMetrics, hasBoundsResult, gateVars, trigVars>>

evaluateAutoTradeMarketCapGuardResume ==
    /\ guardPc = "awaitMetrics"
    /\ guardResult' = guardDecision(guardIn.tokenBounds, guardMetrics)
    /\ guardPc' = "returned"
    /\ UNCHANGED <<svcVars, now, guardIn, guardMetrics, guardFetchCalls, hasBoundsResult, gateVars, trigVars>>

GuardIdle ==
    /\ guardPc = "idle"
    /\ guardIn = [tokenAddress |-> <<>>, tokenBounds |-> UndefinedBounds]
    /\ guardMetrics = NoMetrics
    /\ guardResult = NoResult
    /\ guardFetchCalls = 0
    /\ hasBoundsResult = <<>>

GateIdle ==
    /\ gateStore = <<>>
    /\ callers = {}
    /\ gateLog = <<>>

TriggersIdle ==
    /\ config = <<>>
    /\ procs = <<>>
    /\ purchases = {}

\* this.interval = null: no timer handle (handles are numbered from 1)
NoTimer == 0

\* the reconciliation manager as constructed: private interval = null
\* no timer armed; boundHandler registered once, as the bootstrap leaves it
SchedulerIdle ==
    /\ interval = NoTimer
    /\ timers = <<>>
    /\ timerSeq = 0
    /\ listeners = 1
    /\ reentryShutDown = FALSE

\* the metrics service as loaded: const metricsCache = new Map()
MetricsIdle ==
    /\ jupiterApiKey = TRUE
    /\ metricsCache = <<>>
    /\ fetches = <<>>
    /\ providerCalls = {}

\* the position cache with nothing stored and no call made
PositionsIdle ==
    /\ redisStrings = <<>>
    /\ redisSets = <<>>
    /\ ops = <<>>

ServicesIdle == SchedulerIdle /\ MetricsIdle /\ PositionsIdle

NextGuard ==
    \/ hasAutoTradeMarketCapBoundsCall
    \/ evaluateAutoTradeMarketCapGuard
    \/ evaluateAutoTradeMarketCapGuardResume

InitSpecGuard == now = 0 /\ InitGuard /\ GateIdle /\ TriggersIdle /\ ServicesIdle

SpecGuard == InitSpecGuard /\ [][NextGuard]_vars

-----------------------------------------------------------------------------
(* Idempotency gate: idempotencyService.checkAndSet(key, ttlSeconds), one  *)
(* conditional set with expiry against the shared store.                   *)

AUTO_TRADE_IDEMPOTENCY_PREFIX == "auto-trade-reentry"
RECONCILE_IDEMPOTENCY_PREFIX == "auto-trade-reconcile"
RECONCILE_INTERVAL_MS == 10 * 60 * 1000
RECONCILE_LOCK_TTL_SECONDS_pastInterval == (RECONCILE_INTERVAL_MS \div 1000) + 2 * 60
RECONCILE_LOCK_TTL_SECONDS == 8 * 60
REDIS_TTL_IDEMPOTENCY == 60

reentryKey_perAgent(agentId, positionId) == <<AUTO_TRADE_IDEMPOTENCY_PREFIX, agentId>>

\* `${AUTO_TRADE_IDEMPOTENCY_PREFIX}:${agentId}:${positionId}`
reentryKey(agentId, positionId) == <<AUTO_TRADE_IDEMPOTENCY_PREFIX, agentId, positionId>>

\* `${RECONCILE_IDEMPOTENCY_PREFIX}:${agentId}:${walletAddress}:${normalizedToken}`
reconcileKey(agentId, walletAddress, tokenAddress) ==
    <<RECONCILE_IDEMPOTENCY_PREFIX, agentId, walletAddress>> \o normalizeToken(tokenAddress)

\* a key is present until its expiry
keyPresent(store, key, t) == key \in DOMAIN store /\ store[key] > t

\* the store drops the keys whose expiry has passed
expireKeys(store, t) == [k \in {x \in DOMAIN store : store[x] > t} |-> store[k]]

checkAndSetAnswer_always(store, key, t) == TRUE

\* the answer of checkAndSet: true iff the key is absent
checkAndSetAnswer(store, key, t) == ~keyPresent(store, key, t)

checkAndSetStore_extend(store, key, ttlSeconds, t) ==
    [k \in DOMAIN store \cup {key} |-> IF k = key THEN t + ttlSeconds * 1000 ELSE store[k]]

\* the store after checkAndSet: the key set with its expiry if it was absent,
\* no mutation if it was present
checkAndSetStore(store, key, ttlSeconds, t) ==
    IF keyPresent(store, key, t) THEN store
    ELSE [k \in DOMAIN store \cup {key} |-> IF k = key THEN t + ttlSeconds * 1000 ELSE store[k]]

(* The gate on its own: callers issue checkAndSet, the store serves the    *)
(* calls in flight one at a time in any order, and time passes.            *)

MaxGateCalls == 3
MaxGateTicks == 3
GateTickMs == 60000

GateKeys == {reentryKey("agent-1", "pos-1"), reconcileKey("agent-1", "wallet-1", <<" ", "T", "a">>)}
GateTtls == {REDIS_TTL_IDEMPOTENCY, RECONCILE_LOCK_TTL_SECONDS}

InitGate ==
    /\ gateStore = <<>>
    /\ callers = {}
    /\ gateLog = <<>>

\* a caller issues idempotencyService.checkAndSet(key, ttl)
callCheckAndSet ==
    /\ Len(gateLog) + Cardinality(callers) < MaxGateCalls
    /\ \E key \in GateKeys, ttl \in GateTtls :
          callers' = callers \cup
              {[id |-> Len(gateLog) + Cardinality(callers) + 1, key |-> key, ttl |-> ttl]}
    /\ UNCHANGED <<svcVars, now, guardVars, gateStore, gateLog, trigVars>>

\* the store serves one call in flight
checkAndSet ==
    /\ \E c \in callers :
          /\ gateStore' = checkAndSetStore(gateStore, c.key, c.ttl, now)
          /\ gateLog' = Append(gateLog,
                [caller |-> c.id, key |-> c.key, ttl |-> c.ttl, at |-> now,
                 concurrent |-> Cardinality({d \in callers \ {c} : d.key = c.key}),
                 result |-> checkAndSetAnswer(gateStore, c.key, now),
                 expiresAt |-> gateStore'[c.key]])
          /\ callers' = callers \ {c}
    /\ UNCHANGED <<svcVars, now, guardVars, trigVars>>

\* time passes; expired keys leave the store
GateTick ==
    /\ now < MaxGateTicks * GateTickMs
    /\ now' = now + GateTickMs
    /\ gateStore' = expireKeys(gateStore, now')
    /\ UNCHANGED <<svcVars, guardVars, callers, gateLog, trigVars>>

NextGate == callCheckAndSet \/ checkAndSet \/ GateTick

InitSpecGate == now = 0 /\ GuardIdle /\ InitGate /\ TriggersIdle /\ ServicesIdle

SpecGate == InitSpecGate /\ [][NextGate]_vars

-----------------------------------------------------------------------------
(* The auto-trade trigger paths.  Every await of a handler is a point      *)
(* where other handlers run and time passes; collaborators that live out-  *)
(* side the core (config loader, database, executor, signal table, metrics *)
(* fetch) answer with any of their possible outcomes.                      *)

AgentIds == {"agent-1", "agent-2"}
WalletAddress == "wallet-1"
PositionIds == {"pos-1", "pos-2"}

\* AutoTradeTokenConfig {address, enabled, marketCapMin?, marketCapMax?}
Tok(address, enabled, min, max) ==
    [address |-> address, enabled |-> enabled, marketCapMin |-> min, marketCapMax |-> max]

\* config.autoTrade: undefined, or {enabled, tokens}
AutoTradeUndefined == [t |-> "undefined", enabled |-> FALSE, tokens |-> <<>>]
AutoTrade(enabled, tokens) == [t |-> "object", enabled |-> enabled, tokens |-> tokens]

TokA == Tok(<<" ", "T", "a">>, TRUE, JsUndefined, JsUndefined)
TokABounded == Tok(<<"T", "A">>, TRUE, Num(1), Num(2))
TokB == Tok(<<"t", "b">>, TRUE, JsNull, Num(2))
TokBOff == Tok(<<"T", "b", " ">>, FALSE, JsUndefined, JsUndefined)

AutoTradeChoices ==
    {AutoTradeUndefined,
     AutoTrade(FALSE, <<TokA>>),
     AutoTrade(TRUE, <<TokA, TokBOff>>),
     AutoTrade(TRUE, <<TokABounded, TokB>>)}

\* what the metrics fetch may resolve to inside a trigger path
TriggerMetrics == {NoMetrics} \cup {Metrics(Num(n), JsNull, JsNull) : n \in {0, 1, 3}}

\* the market-cap bounds read off a token config (tokenBounds: tokenConfig)
boundsOf(token) == BoundsObject(token.marketCapMin, token.marketCapMax)

\* evaluateAutoTradeMarketCapGuard as a trigger path sees it: the results it
\* can return for these bounds, over the outcomes of the metrics fetch
guardResults(tokenBounds) ==
    IF ~hasAutoTradeMarketCapBounds(tokenBounds) THEN {guardWithoutBounds}
    ELSE {guardDecision(tokenBounds, m) : m \in TriggerMetrics}

\* the guard's promise can reject where it has bounds to check: the URL of
\* fetchTokenMetrics is built outside its try block (encodeURIComponent)
guardCanThrow(tokenBounds) == hasAutoTradeMarketCapBounds(tokenBounds)

\* the reasons with which the guard allows
AllowedReasons == {no_bounds_configured, in_range}

\* config.autoTrade?.enabled
autoTradeEnabled(autoTrade) == autoTrade.t = "object" /\ autoTrade.enabled

\* (config.autoTrade.tokens ?? []).filter((token) => token.enabled)
enabledTokens(autoTrade) == SelectSeq(autoTrade.tokens, LAMBDA token : token.enabled)

matchingTokens_ignoreEnabled(autoTrade, normalizedToken) ==
    SelectSeq(autoTrade.tokens, LAMBDA token : normalizeToken(token.address) = normalizedToken)

\* tokens.find((token) => token.enabled && token.address.trim().toLowerCase() === normalizedToken)
matchingTokens(autoTrade, normalizedToken) ==
    SelectSeq(autoTrade.tokens,
              LAMBDA token : token.enabled /\ normalizeToken(token.address) = normalizedToken)

(* One handler invocation.  kind: reentry | cycle | save.  Besides the     *)
(* handler's position and local variables the record keeps what the        *)
(* collaborators answered for the token in hand: gate (checkAndSet),       *)
(* position (findFirst), guard (the guard's reason), whether the agent's   *)
(* config was loaded, and, for a cycle, whether the processing of the      *)
(* agent in hand has thrown (failed) and how the executePurchase call for  *)
(* the token in hand ended (executor).                                     *)
NoToken == Tok(<<>>, FALSE, JsUndefined, JsUndefined)
NewProc(kind, pc) ==
    [kind |-> kind, pc |-> pc, outcome |-> "",
     agentId |-> "", positionId |-> "", tokenAddress |-> <<>>, source |-> "",
     walletAddress |-> "", key |-> <<>>, lockedAt |-> -1,
     token |-> NoToken, agentsLeft |-> <<>>, tokensLeft |-> <<>>,
     existingConfig |-> AutoTradeUndefined, partialConfig |-> AutoTradeUndefined,
     gate |-> "", loaded |-> FALSE, position |-> "", guard |-> "", failed |-> FALSE,
     executor |-> ""]

\* nR re-entry deliveries, nC reconciliation cycles and nS config saves, none started
NoProcs(nR, nC, nS) ==
    [i \in 1..(nR + nC + nS) |->
        NewProc(IF i <= nR THEN "reentry" ELSE IF i <= nR + nC THEN "cycle" ELSE "save", "idle")]

At(kind, pc) == {i \in DOMAIN procs : procs[i].kind = kind /\ procs[i].pc = pc}

\* the next invocation of a kind to start
Fresh(kind) == {i \in At(kind, "idle") : \A j \in At(kind, "idle") : i <= j}

\* a handler that has returned: its locals are gone; the record keeps the
\* outcome, the event's source, the last gate key, what the collaborators
\* answered for it, and what a cycle had left of its agent list
Ended(p, outcome) ==
    [NewProc(p.kind, "done") EXCEPT
        !.outcome = outcome, !.source = p.source, !.key = p.key, !.gate = p.gate,
        !.loaded = p.loaded, !.position = p.position, !.guard = p.guard,
        !.failed = p.failed, !.agentsLeft = p.agentsLeft]

Caught_rethrow(p) == Ended(p, "propagated")

\* handlePositionClosed: an error thrown by any await lands in the catch block,
\* which logs it; boundHandler's .catch takes what the catch block lets go
Caught(p) == Ended(p, "error")

\* one call of tradingExecutor.executePurchase: its arguments, and what the
\* caller had been answered before it (signal: the id createAutoTradeSignal
\* returned; signalId: autoTradeSignalId ?? undefined)
Purchase(i, p, path, walletAddress, tokenAddress, signal) ==
    [by |-> i, path |-> path, agentId |-> p.agentId, positionId |-> p.positionId,
     walletAddress |-> walletAddress,
     tokenAddress |-> tokenAddress, signal |-> signal,
     signalId |-> Coalesce(signal, JsUndefined), bounds |-> boundsOf(p.token),
     key |-> p.key, lockedAt |-> p.lockedAt, position |-> p.position,
     guard |-> p.guard, at |-> now]

\* how executePurchase ends: a result, a TradingExecutorError whose code is in
\* EXPECTED_AUTO_TRADE_SKIP_CODES, or any other error
PurchaseOutcomes == {"executed", "guardrail", "failed"}

\* createAutoTradeSignal / createImmediateAutoTradeSignal: signal.id, or null
SignalIds == {Num(1), JsNull}

-----------------------------------------------------------------------------
(* Re-entry handler: handlePositionClosed                                  *)

\* the token a closed position held
positionToken(positionId) == IF positionId = "pos-1" THEN <<"T", "A">> ELSE <<"t", "B", " ">>

PositionClosedEvents ==
    {[agentId |-> "agent-1", positionId |-> positionId,
      tokenAddress |-> positionToken(positionId), source |-> source] :
        positionId \in PositionIds, source \in {"trading", "wallet_reset"}}

emitPositionClosed_noSourceCheck ==
    /\ \A j \in DOMAIN procs : procs[j].outcome # "propagated"
    /\ \E i \in Fresh("reentry"), event \in PositionClosedEvents :
          procs' = [procs EXCEPT ![i] =
              [NewProc("reentry", "checkAndSet") EXCEPT
                  !.agentId = event.agentId, !.positionId = event.positionId,
                  !.tokenAddress = event.tokenAddress, !.source = event.source,
                  !.key = reentryKey(event.agentId, event.positionId)]]
    /\ UNCHANGED <<svcVars, now, guardVars, gateVars, config, purchases>>

\* positionEventEmitter.emit('position_closed', event): boundHandler is
\* called once for each time it is registered, and each call of the handler
\* runs to its first await; a wallet_reset event returns before it.  An
\* error that reached the emitter would end the delivery of events.
emitPositionClosed ==
    /\ \A j \in DOMAIN procs : procs[j].outcome # "propagated"
    /\ listeners > 0
    /\ \E event \in PositionClosedEvents :
          LET idle == At("reentry", "idle")
              called == {i \in idle : Cardinality({j \in idle : j < i}) < listeners}
              p == [NewProc("reentry", "checkAndSet") EXCEPT
                        !.agentId = event.agentId, !.positionId = event.positionId,
                        !.tokenAddress = event.tokenAddress, !.source = event.source]
          IN  /\ Cardinality(called) = listeners
              /\ procs' = [i \in DOMAIN procs |->
                     IF i \notin called THEN procs[i]
                     ELSE IF event.source = "wallet_reset" THEN Ended(p, "wallet_reset")
                     ELSE [p EXCEPT !.key = reentryKey(event.agentId, event.positionId)]]
    /\ UNCHANGED <<svcVars, now, guardVars, gateVars, config, purchases>>

reentryCheckAndSet_ignoreAnswer ==
    /\ \E i \in At("reentry", "checkAndSet") :
          LET p == procs[i] IN
          /\ gateStore' = checkAndSetStore(gateStore, p.key, REDIS_TTL_IDEMPOTENCY, now)
          /\ procs' = [procs EXCEPT ![i] =
                [p EXCEPT !.pc = "loadAgentConfig", !.lockedAt = now,
                          !.gate = IF checkAndSetAnswer(gateStore, p.key, now) THEN "true" ELSE "false"]]
    /\ UNCHANGED <<svcVars, now, guardVars, callers, gateLog, config, purchases>>

\* await idempotencyService.checkAndSet(idempotencyKey, REDIS_TTL.IDEMPOTENCY)
reentryCheckAndSet ==
    /\ \E i \in At("reentry", "checkAndSet") :
          LET p == procs[i] IN
          \/ /\ procs' = [procs EXCEPT ![i] = Caught([p EXCEPT !.gate = "throws"])]
             /\ UNCHANGED gateStore
          \/ /\ gateStore' = checkAndSetStore(gateStore, p.key, REDIS_TTL_IDEMPOTENCY, now)
             /\ procs' = [procs EXCEPT ![i] =
                   IF checkAndSetAnswer(gateStore, p.key, now)
                   THEN [p EXCEPT !.gate = "true", !.pc = "loadAgentConfig", !.lockedAt = now]
                   ELSE Ended([p EXCEPT !.gate = "false"], "duplicate")]
    /\ UNCHANGED <<svcVars, now, guardVars, callers, gateLog, config, purchases>>

\* await configService.loadAgentConfig(agentId), then the two early returns
reentryLoadConfig ==
    /\ \E i \in At("reentry", "loadAgentConfig") :
          LET p == [procs[i] EXCEPT !.loaded = TRUE]
              autoTrade == config[p.agentId]
              found == matchingTokens(autoTrade, normalizeToken(p.tokenAddress))
          IN
          \/ procs' = [procs EXCEPT ![i] = Caught(p)]
          \/ procs' = [procs EXCEPT ![i] =
                IF ~autoTradeEnabled(autoTrade) THEN Ended(p, "disabled")
                ELSE IF found = <<>> THEN Ended(p, "no_token")
                ELSE [p EXCEPT !.pc = "guard", !.token = found[1]]]
    /\ UNCHANGED <<svcVars, now, guardVars, gateVars, config, purchases>>

reentryGuard_releasesKey ==
    /\ \E i \in At("reentry", "guard") :
          LET p == procs[i] IN
          \/ /\ guardCanThrow(boundsOf(p.token))
             /\ procs' = [procs EXCEPT ![i] = Caught([p EXCEPT !.guard = "throws"])]
             /\ UNCHANGED gateStore
          \/ \E r \in guardResults(boundsOf(p.token)) :
                /\ procs' = [procs EXCEPT ![i] =
                      IF ~r.allowed THEN Ended([p EXCEPT !.guard = r.reason], "guard_denied")
                      ELSE [p EXCEPT !.guard = r.reason, !.pc = "executePurchase"]]
                /\ gateStore' = IF r.allowed THEN gateStore
                                ELSE [k \in DOMAIN gateStore \ {p.key} |-> gateStore[k]]
    /\ UNCHANGED <<svcVars, now, guardVars, callers, gateLog, config, purchases>>

reentryGuard_ignoreDenied ==
    /\ \E i \in At("reentry", "guard") :
          LET p == procs[i] IN
          \E r \in guardResults(boundsOf(p.token)) :
             procs' = [procs EXCEPT ![i] = [p EXCEPT !.guard = r.reason, !.pc = "executePurchase"]]
    /\ UNCHANGED <<svcVars, now, guardVars, gateVars, config, purchases>>

\* await evaluateAutoTradeMarketCapGuard({tokenAddress, tokenBounds: tokenConfig})
reentryGuard ==
    /\ \E i \in At("reentry", "guard") :
          LET p == procs[i] IN
          \/ /\ guardCanThrow(boundsOf(p.token))
             /\ procs' = [procs EXCEPT ![i] = Caught([p EXCEPT !.guard = "throws"])]
          \/ \E r \in guardResults(boundsOf(p.token)) :
                procs' = [procs EXCEPT ![i] =
                   IF ~r.allowed THEN Ended([p EXCEPT !.guard = r.reason], "guard_denied")
                   ELSE [p EXCEPT !.guard = r.reason, !.pc = "executePurchase"]]
    /\ UNCHANGED <<svcVars, now, guardVars, gateVars, config, purchases>>

reentryPurchase_requireSignal ==
    /\ \E i \in At("reentry", "executePurchase") :
          LET p == procs[i] IN
          \E signal \in SignalIds, outcome \in PurchaseOutcomes :
             IF signal = JsNull
             THEN /\ procs' = [procs EXCEPT ![i] = Caught(p)]
                  /\ UNCHANGED purchases
             ELSE /\ purchases' = purchases \cup {Purchase(i, p, "reentry", "", p.tokenAddress, signal)}
                  /\ procs' = [procs EXCEPT ![i] =
                        IF outcome = "failed" THEN Caught(p) ELSE Ended(p, outcome)]
    /\ UNCHANGED <<svcVars, now, guardVars, gateVars, config>>

\* await createAutoTradeSignal(...), which returns an id or null and never
\* throws, then await tradingExecutor.executePurchase(...) and the catch block
reentryPurchase ==
    /\ \E i \in At("reentry", "executePurchase") :
          LET p == procs[i] IN
          \E signal \in SignalIds, outcome \in PurchaseOutcomes :
             /\ purchases' = purchases \cup {Purchase(i, p, "reentry", "", p.tokenAddress, signal)}
             /\ procs' = [procs EXCEPT ![i] =
                   IF outcome = "failed" THEN Caught(p) ELSE Ended(p, outcome)]
    /\ UNCHANGED <<svcVars, now, guardVars, gateVars, config>>

-----------------------------------------------------------------------------
(* Reconciliation manager: runCycle, reconcileAgent, reconcileToken        *)

\* what redisAgentService.getActiveAgentIds() may resolve to
ActiveAgentLists == {<<>>, <<"agent-1">>, <<"agent-2", "agent-1">>}

\* runCycle's for loop takes the next agent of the list, or the cycle is over
nextAgent(p) ==
    IF Len(p.agentsLeft) <= 1
    THEN Ended([NewProc("cycle", "done") EXCEPT !.agentsLeft = p.agentsLeft], "cycle_done")
    ELSE [p EXCEPT !.pc = "loadAgentConfig", !.agentsLeft = Tail(p.agentsLeft), !.failed = FALSE,
                   !.agentId = p.agentsLeft[2], !.tokensLeft = <<>>, !.token = NoToken,
                   !.walletAddress = "", !.key = <<>>, !.lockedAt = -1,
                   !.gate = "", !.loaded = FALSE, !.position = "", !.guard = "",
                   !.executor = ""]

\* reconcileAgent returns to runCycle without an error
agentReturned(p) == [p EXCEPT !.pc = "agentDone"]

agentFailed_abort(p) == Ended([p EXCEPT !.failed = TRUE], "cycle_failed")

\* reconcileAgent's catch block: whatever was thrown while the agent was
\* processed, its token loop included, is logged and reconcileAgent returns
agentFailed(p) == [p EXCEPT !.pc = "agentDone", !.failed = TRUE]

\* reconcileToken returns to the token loop of reconcileAgent
tokenReturned(p) == [p EXCEPT !.pc = "tokenDone"]

\* reconcileAgent's for loop takes the next enabled token, or the agent is done
nextToken(p) ==
    IF Len(p.tokensLeft) <= 1 THEN agentReturned(p)
    ELSE [p EXCEPT !.pc = "checkAndSet", !.tokensLeft = Tail(p.tokensLeft),
                   !.token = p.tokensLeft[2],
                   !.key = reconcileKey(p.agentId, p.walletAddress, p.tokensLeft[2].address),
                   !.lockedAt = -1, !.gate = "", !.position = "", !.guard = "",
                   !.executor = ""]

\* a scheduler instance's setInterval callback fires: this.runCycle()
timerFires ==
    /\ \E i \in Fresh("cycle") :
          procs' = [procs EXCEPT ![i] = NewProc("cycle", "getActiveAgentIds")]
    /\ UNCHANGED <<svcVars, now, guardVars, gateVars, config, purchases>>

runCycle_clearsTimer ==
    /\ \E i \in At("cycle", "getActiveAgentIds") :
          LET p == procs[i] IN
          \/ /\ procs' = [procs EXCEPT ![i] = Ended(p, "cycle_failed")]
             /\ interval' = NoTimer /\ timers' = <<>>
             /\ UNCHANGED <<timerSeq, listeners, reentryShutDown, metricsVars, posVars>>
          \/ /\ \E activeAgentIds \in ActiveAgentLists :
                procs' = [procs EXCEPT ![i] =
                   IF activeAgentIds = <<>> THEN Ended(p, "no_agents")
                   ELSE [p EXCEPT !.pc = "loadAgentConfig", !.agentsLeft = activeAgentIds,
                                  !.agentId = activeAgentIds[1]]]
             /\ UNCHANGED svcVars
    /\ UNCHANGED <<now, guardVars, gateVars, config, purchases>>

\* await redisAgentService.getActiveAgentIds(); a rejection ends in the
\* .catch of the timer callback
runCycle ==
    /\ \E i \in At("cycle", "getActiveAgentIds") :
          LET p == procs[i] IN
          \/ procs' = [procs EXCEPT ![i] = Ended(p, "cycle_failed")]
          \/ \E activeAgentIds \in ActiveAgentLists :
                procs' = [procs EXCEPT ![i] =
                   IF activeAgentIds = <<>> THEN Ended(p, "no_agents")
                   ELSE [p EXCEPT !.pc = "loadAgentConfig", !.agentsLeft = activeAgentIds,
                                  !.agentId = activeAgentIds[1]]]
    /\ UNCHANGED <<svcVars, now, guardVars, gateVars, config, purchases>>

\* reconcileAgent: await configService.loadAgentConfig(agentId) and the two
\* early returns
reconcileAgentLoadConfig ==
    /\ \E i \in At("cycle", "loadAgentConfig") :
          LET p == [procs[i] EXCEPT !.loaded = TRUE]
              autoTrade == config[p.agentId]
          IN
          \/ procs' = [procs EXCEPT ![i] = agentFailed(p)]
          \/ procs' = [procs EXCEPT ![i] =
                IF ~autoTradeEnabled(autoTrade) THEN agentReturned(p)
                ELSE IF enabledTokens(autoTrade) = <<>> THEN agentReturned(p)
                ELSE [p EXCEPT !.pc = "findWalletByAgentId", !.tokensLeft = enabledTokens(autoTrade)]]
    /\ UNCHANGED <<svcVars, now, guardVars, gateVars, config, purchases>>

\* reconcileAgent: await getTradingMode, await findWalletByAgentId (either
\* may reject, the wallet may be missing), then the token loop up to the
\* first await of reconcileToken
reconcileAgentFindWallet ==
    /\ \E i \in At("cycle", "findWalletByAgentId") :
          LET p == procs[i] IN
          \/ procs' = [procs EXCEPT ![i] = agentFailed(p)]
          \/ procs' = [procs EXCEPT ![i] = agentReturned(p)]
          \/ procs' = [procs EXCEPT ![i] =
                [p EXCEPT !.pc = "checkAndSet", !.walletAddress = WalletAddress,
                          !.token = p.tokensLeft[1],
                          !.key = reconcileKey(p.agentId, WalletAddress, p.tokensLeft[1].address)]]
    /\ UNCHANGED <<svcVars, now, guardVars, gateVars, config, purchases>>

\* reconcileToken: await idempotencyService.checkAndSet(idempotencyKey,
\* RECONCILE_LOCK_TTL_SECONDS); a rejection leaves reconcileToken and is
\* caught by reconcileAgent
reconcileTokenCheckAndSet ==
    /\ \E i \in At("cycle", "checkAndSet") :
          LET p == procs[i] IN
          \/ /\ procs' = [procs EXCEPT ![i] = agentFailed([p EXCEPT !.gate = "throws"])]
             /\ UNCHANGED gateStore
          \/ /\ gateStore' = checkAndSetStore(gateStore, p.key, RECONCILE_LOCK_TTL_SECONDS, now)
             /\ procs' = [procs EXCEPT ![i] =
                   IF checkAndSetAnswer(gateStore, p.key, now)
                   THEN [p EXCEPT !.gate = "true", !.pc = "findFirst", !.lockedAt = now]
                   ELSE tokenReturned([p EXCEPT !.gate = "false"])]
    /\ UNCHANGED <<svcVars, now, guardVars, callers, gateLog, config, purchases>>

reconcileTokenFindPosition_ignoreFound ==
    /\ \E i \in At("cycle", "findFirst") :
          LET p == procs[i] IN
          \/ procs' = [procs EXCEPT ![i] = agentFailed([p EXCEPT !.position = "throws"])]
          \/ procs' = [procs EXCEPT ![i] = [p EXCEPT !.position = "found", !.pc = "guard"]]
          \/ procs' = [procs EXCEPT ![i] = [p EXCEPT !.position = "null", !.pc = "guard"]]
    /\ UNCHANGED <<svcVars, now, guardVars, gateVars, config, purchases>>

\* reconcileToken: await prisma.agentPosition.findFirst(...): rejects, finds
\* a position, or finds none
reconcileTokenFindPosition ==
    /\ \E i \in At("cycle", "findFirst") :
          LET p == procs[i] IN
          \/ procs' = [procs EXCEPT ![i] = agentFailed([p EXCEPT !.position = "throws"])]
          \/ procs' = [procs EXCEPT ![i] = tokenReturned([p EXCEPT !.position = "found"])]
          \/ procs' = [procs EXCEPT ![i] = [p EXCEPT !.position = "null", !.pc = "guard"]]
    /\ UNCHANGED <<svcVars, now, guardVars, gateVars, config, purchases>>

\* reconcileToken: await evaluateAutoTradeMarketCapGuard({tokenAddress:
\* normalizedToken, tokenBounds}), outside any try block of reconcileToken
reconcileTokenGuard ==
    /\ \E i \in At("cycle", "guard") :
          LET p == procs[i] IN
          \/ /\ guardCanThrow(boundsOf(p.token))
             /\ procs' = [procs EXCEPT ![i] = agentFailed([p EXCEPT !.guard = "throws"])]
          \/ \E r \in guardResults(boundsOf(p.token)) :
                procs' = [procs EXCEPT ![i] =
                   IF ~r.allowed THEN tokenReturned([p EXCEPT !.guard = r.reason])
                   ELSE [p EXCEPT !.guard = r.reason, !.pc = "executePurchase"]]
    /\ UNCHANGED <<svcVars, now, guardVars, gateVars, config, purchases>>

reconcileTokenPurchase_rawAddress ==
    /\ \E i \in At("cycle", "executePurchase") :
          LET p == procs[i] IN
             /\ purchases' = purchases \cup
                   {Purchase(i, p, "reconcile", p.walletAddress, p.token.address, JsUndefined)}
             /\ \E o \in PurchaseOutcomes :
                   procs' = [procs EXCEPT ![i] = tokenReturned([p EXCEPT !.executor = o])]
    /\ UNCHANGED <<svcVars, now, guardVars, gateVars, config>>

reconcileTokenPurchase_rethrow ==
    /\ \E i \in At("cycle", "executePurchase") :
          LET p == procs[i] IN
             /\ purchases' = purchases \cup
                   {Purchase(i, p, "reconcile", p.walletAddress, normalizeToken(p.token.address), JsUndefined)}
             /\ \E o \in PurchaseOutcomes :
                   procs' = [procs EXCEPT ![i] =
                      IF o = "failed" THEN agentFailed([p EXCEPT !.executor = o])
                      ELSE tokenReturned([p EXCEPT !.executor = o])]
    /\ UNCHANGED <<svcVars, now, guardVars, gateVars, config>>

\* reconcileToken: await tradingExecutor.executePurchase(...) in its try/catch:
\* a result is logged, a TradingExecutorError with an expected skip code
\* returns, any other error is logged; no error leaves reconcileToken
reconcileTokenPurchase ==
    /\ \E i \in At("cycle", "executePurchase") :
          LET p == procs[i] IN
             /\ purchases' = purchases \cup
                   {Purchase(i, p, "reconcile", p.walletAddress, normalizeToken(p.token.address), JsUndefined)}
             /\ \E o \in PurchaseOutcomes :
                   procs' = [procs EXCEPT ![i] = tokenReturned([p EXCEPT !.executor = o])]
    /\ UNCHANGED <<svcVars, now, guardVars, gateVars, config>>

\* reconcileAgent resumes after await this.reconcileToken(...): the next
\* enabled token up to its checkAndSet, or the end of the token loop
reconcileNextToken ==
    /\ \E i \in At("cycle", "tokenDone") :
          procs' = [procs EXCEPT ![i] = nextToken(procs[i])]
    /\ UNCHANGED <<svcVars, now, guardVars, gateVars, config, purchases>>

\* runCycle resumes after await this.reconcileAgent(agentId): the next agent
\* up to its loadAgentConfig, or the end of the cycle
reconcileNextAgent ==
    /\ \E i \in At("cycle", "agentDone") :
          procs' = [procs EXCEPT ![i] = nextAgent(procs[i])]
    /\ UNCHANGED <<svcVars, now, guardVars, gateVars, config, purchases>>

-----------------------------------------------------------------------------
(* The scheduler of one process: initialize, shutdown and its timer        *)

\* setInterval calls made by one process
MaxTimers == 2

initialize_unguarded ==
    /\ timerSeq < MaxTimers
    /\ timerSeq' = timerSeq + 1
    /\ interval' = timerSeq + 1
    /\ timers' = [h \in DOMAIN timers \cup {timerSeq + 1} |->
                     IF h = timerSeq + 1 THEN now + RECONCILE_INTERVAL_MS ELSE timers[h]]
    /\ UNCHANGED <<now, guardVars, gateVars, trigVars, metricsVars, posVars,
                   listeners, reentryShutDown>>

\* initialize(): returns when this.interval is set, otherwise arms a timer
\* that is first due RECONCILE_INTERVAL_MS from now and keeps its handle
initialize ==
    /\ IF interval # NoTimer
       THEN UNCHANGED schedVars
       ELSE /\ timerSeq < MaxTimers
            /\ timerSeq' = timerSeq + 1
            /\ interval' = timerSeq + 1
            /\ timers' = [h \in DOMAIN timers \cup {timerSeq + 1} |->
                             IF h = timerSeq + 1 THEN now + RECONCILE_INTERVAL_MS ELSE timers[h]]
            /\ UNCHANGED <<listeners, reentryShutDown>>
    /\ UNCHANGED <<now, guardVars, gateVars, trigVars, metricsVars, posVars>>

\* shutdown(): clearInterval(this.interval) and this.interval = null, when set
shutdown ==
    /\ IF interval # NoTimer
       THEN /\ timers' = [h \in DOMAIN timers \ {interval} |-> timers[h]]
            /\ interval' = NoTimer
            /\ UNCHANGED <<timerSeq, listeners, reentryShutDown>>
       ELSE UNCHANGED schedVars
    /\ UNCHANGED <<now, guardVars, gateVars, trigVars, metricsVars, posVars>>

\* an armed timer of this process is due: its callback calls this.runCycle()
\* and the timer is due again one interval later
intervalFires ==
    /\ \E h \in DOMAIN timers :
          /\ timers[h] <= now
          /\ timers' = [timers EXCEPT ![h] = timers[h] + RECONCILE_INTERVAL_MS]
    /\ \E i \in Fresh("cycle") :
          procs' = [procs EXCEPT ![i] = NewProc("cycle", "getActiveAgentIds")]
    /\ UNCHANGED <<now, guardVars, gateVars, config, purchases, interval, timerSeq,
                   listeners, reentryShutDown, metricsVars, posVars>>

\* registrations of boundHandler an emitter is given
MaxListeners == 2

\* initializeAutoTradeReentryManager(): positionEventEmitter.on adds
\* boundHandler to the listeners of 'position_closed', once more each time
initializeAutoTradeReentryManager ==
    /\ listeners < MaxListeners
    /\ listeners' = listeners + 1
    /\ reentryShutDown' = FALSE
    /\ UNCHANGED <<now, guardVars, gateVars, trigVars, metricsVars, posVars,
                   interval, timers, timerSeq>>

\* shutdownAutoTradeReentryManager(): positionEventEmitter.off removes one
\* registration of boundHandler, if there is one
shutdownAutoTradeReentryManager ==
    /\ listeners' = IF listeners > 0 THEN listeners - 1 ELSE 0
    /\ reentryShutDown' = TRUE
    /\ UNCHANGED <<now, guardVars, gateVars, trigVars, metricsVars, posVars,
                   interval, timers, timerSeq>>

MaxSchedTicks == 4
SchedTickMs == RECONCILE_INTERVAL_MS \div 2

\* time passes while no armed timer is due; expired keys leave the store
SchedTick ==
    /\ now < MaxSchedTicks * SchedTickMs
    /\ \A h \in DOMAIN timers : now < timers[h]
    /\ now' = now + SchedTickMs
    /\ gateStore' = expireKeys(gateStore, now')
    /\ UNCHANGED <<svcVars, guardVars, callers, gateLog, trigVars>>

-----------------------------------------------------------------------------
(* The metrics cache: fetchTokenMetrics and cacheResult                    *)

TOKEN_METRICS_TIMEOUT_MS == 8000
METRICS_CACHE_TTL_MS == 30000

\* a lone surrogate code unit, which encodeURIComponent rejects with a URIError
LoneSurrogate == "\\uD800"

\* the token addresses fetchTokenMetrics is called with (cache keys are the
\* strings as given)
MetricsTokens == {<<"t", "a">>, <<"t", "b">>, <<LoneSurrogate>>}

encodeURIComponentThrows(tokenAddress) ==
    \E k \in DOMAIN tokenAddress : tokenAddress[k] = LoneSurrogate

\* how the provider request ends: fetch rejects, withTimeout rejects, a
\* non-2xx response, or a 2xx response whose body is not JSON, not an array,
\* an empty array, an array whose first element is null, or an array whose
\* first element is an object
ProviderFailures ==
    {"rejected", "timeout", "non2xx", "invalidJson", "notArray", "emptyArray", "nullItem"}
ProviderOutcomes == ProviderFailures \cup {"item"}

\* data[0] of a 2xx response: JupiterMintInformation, every property optional
ProviderItems ==
    {[mcap |-> m, liquidity |-> JsUndefined, holderCount |-> JsNull] : m \in {JsUndefined, Num(1)}}

\* metrics: { mcap: first.mcap ?? null, liquidity: ..., holderCount: ... }
metricsOf(first) ==
    Metrics(Coalesce(first.mcap, JsNull), Coalesce(first.liquidity, JsNull),
            Coalesce(first.holderCount, JsNull))

cacheResult_skipNull(cache, tokenAddress, metrics, t) ==
    IF metrics = NoMetrics THEN cache
    ELSE [k \in DOMAIN cache \cup {tokenAddress} |->
             IF k = tokenAddress
             THEN [metrics |-> metrics, expiresAt |-> t + METRICS_CACHE_TTL_MS]
             ELSE cache[k]]

\* cacheResult: metricsCache.set(tokenAddress, {metrics, expiresAt: Date.now() + TTL})
cacheResult(cache, tokenAddress, metrics, t) ==
    [k \in DOMAIN cache \cup {tokenAddress} |->
        IF k = tokenAddress
        THEN [metrics |-> metrics, expiresAt |-> t + METRICS_CACHE_TTL_MS]
        ELSE cache[k]]

cacheFresh_ignoreExpiry(cache, tokenAddress, t) == tokenAddress \in DOMAIN cache

\* cached && Date.now() < cached.expiresAt
cacheFresh(cache, tokenAddress, t) ==
    tokenAddress \in DOMAIN cache /\ t < cache[tokenAddress].expiresAt

\* a call of fetchTokenMetrics: where it is, its argument, when it sent its
\* provider request, how the call ended and what it returned
NewFetch ==
    [pc |-> "idle", tokenAddress |-> <<>>, startedAt |-> -1, outcome |-> "",
     result |-> NoMetrics]

NoFetches(n) == [i \in 1..n |-> NewFetch]

FetchesAt(pc) == {i \in DOMAIN fetches : fetches[i].pc = pc}
FreshFetch == {i \in FetchesAt("idle") : \A j \in FetchesAt("idle") : i <= j}

\* a call that has returned: its locals are gone
Returned(f, outcome, result) ==
    [NewFetch EXCEPT !.pc = "done", !.tokenAddress = f.tokenAddress,
                     !.outcome = outcome, !.result = result]

\* fetchTokenMetrics up to its first await: a fresh cache entry is returned;
\* without an API key null is returned and nothing is cached; the URL is
\* built, which may throw; otherwise the request is sent
fetchTokenMetrics ==
    /\ \E i \in FreshFetch : \E tokenAddress \in MetricsTokens :
          LET f == [fetches[i] EXCEPT !.tokenAddress = tokenAddress] IN
          IF cacheFresh(metricsCache, tokenAddress, now)
          THEN /\ fetches' = [fetches EXCEPT ![i] =
                      Returned(f, "hit", metricsCache[tokenAddress].metrics)]
               /\ UNCHANGED providerCalls
          ELSE IF ~jupiterApiKey
          THEN /\ fetches' = [fetches EXCEPT ![i] = Returned(f, "no_api_key", NoMetrics)]
               /\ UNCHANGED providerCalls
          ELSE IF encodeURIComponentThrows(tokenAddress)
          THEN /\ fetches' = [fetches EXCEPT ![i] = Returned(f, "throws", NoMetrics)]
               /\ UNCHANGED providerCalls
          ELSE /\ fetches' = [fetches EXCEPT ![i] =
                      [f EXCEPT !.pc = "awaitFetch", !.startedAt = now]]
               /\ providerCalls' = providerCalls \cup
                      {[by |-> i, tokenAddress |-> tokenAddress, at |-> now]}
    /\ UNCHANGED <<now, guardVars, gateVars, trigVars, schedVars, posVars,
                   jupiterApiKey, metricsCache>>

\* fetchTokenMetrics from the settlement of the request to its return: the
\* timeout fires TOKEN_METRICS_TIMEOUT_MS after the request was sent; every
\* failure caches null, an item caches the metrics read off it
fetchTokenMetricsResume ==
    /\ \E i \in FetchesAt("awaitFetch") : \E outcome \in ProviderOutcomes :
          LET f == fetches[i] IN
          /\ outcome = "timeout" => now >= f.startedAt + TOKEN_METRICS_TIMEOUT_MS
          /\ \E first \in ProviderItems :
                LET metrics == IF outcome = "item" THEN metricsOf(first) ELSE NoMetrics IN
                /\ metricsCache' = cacheResult(metricsCache, f.tokenAddress, metrics, now)
                /\ fetches' = [fetches EXCEPT ![i] = Returned(f, outcome, metrics)]
    /\ UNCHANGED <<now, guardVars, gateVars, trigVars, schedVars, posVars,
                   jupiterApiKey, providerCalls>>

MaxFetches == 3
MaxMetricsTicks == 3
MetricsTickMs == METRICS_CACHE_TTL_MS \div 3

\* time passes
MetricsTick ==
    /\ now < MaxMetricsTicks * MetricsTickMs
    /\ now' = now + MetricsTickMs
    /\ UNCHANGED <<guardVars, gateVars, trigVars, svcVars>>

InitMetrics ==
    /\ now = 0 /\ GuardIdle /\ GateIdle /\ TriggersIdle /\ SchedulerIdle /\ PositionsIdle
    /\ jupiterApiKey \in BOOLEAN
    /\ metricsCache = <<>>
    /\ fetches = NoFetches(MaxFetches)
    /\ providerCalls = {}

NextMetrics ==
    \/ fetchTokenMetrics
    \/ fetchTokenMetricsResume
    \/ MetricsTick

SpecMetrics == InitMetrics /\ [][NextMetrics]_vars

-----------------------------------------------------------------------------
(* The position cache: payloads and the two indexes in the cache store     *)

\* REDIS_KEYS.POSITION(id), AGENT_POSITIONS(agentId), TOKEN_POSITIONS(address)
POSITION(id) == <<"position", id>>
AGENT_POSITIONS(agentId) == <<"agent_positions", agentId>>
TOKEN_POSITIONS(tokenAddress) == <<"token_positions">> \o tokenAddress

\* the store's commands: GET is a lookup, SET and DEL on a key, and the set
\* commands SMEMBERS, SCARD, SADD and SREM; a set that loses its last member
\* is no longer a key
redisSet(store, key, value) ==
    [k \in DOMAIN store \cup {key} |-> IF k = key THEN value ELSE store[k]]
redisDel(store, key) == [k \in DOMAIN store \ {key} |-> store[k]]
smembers(sets, key) == IF key \in DOMAIN sets THEN sets[key] ELSE {}
scard(sets, key) == Cardinality(smembers(sets, key))
sadd(sets, key, member) == redisSet(sets, key, smembers(sets, key) \cup {member})
srem(sets, key, member) ==
    IF smembers(sets, key) \ {member} = {} THEN redisDel(sets, key)
    ELSE redisSet(sets, key, smembers(sets, key) \ {member})

\* field values of a position: a Date, the ISO string of a Date, a Decimal
DateValue(n) == [t |-> "Date", v |-> n]
IsoString(n) == [t |-> "string", v |-> n]
Decimal(n) == [t |-> "Decimal", v |-> n]
InvalidDate == [t |-> "Date", v |-> -1]

\* an AgentPosition as the service is given it, and the value null
AgentPosition(id, agentId, walletAddress, tokenAddress) ==
    [t |-> "object", id |-> id, agentId |-> agentId, walletAddress |-> walletAddress,
     tokenAddress |-> tokenAddress, createdAt |-> DateValue(1), purchasePrice |-> Decimal(1)]
NullPosition ==
    [t |-> "null", id |-> "", agentId |-> "", walletAddress |-> "", tokenAddress |-> <<>>,
     createdAt |-> JsNull, purchasePrice |-> JsNull]

\* decimalToNumber, on the values serializePositionForRedis passes to it
decimalToNumber(value) ==
    IF IsNullish(value) THEN JsNull
    ELSE IF value.t = "number" THEN value
    ELSE IF value.t = "Decimal" THEN Num(value.v)
    ELSE JsNull

\* the loop body of serializePositionForRedis for one property
serializeValue(v) ==
    IF v.t = "Date" THEN IsoString(v.v)
    ELSE IF v.t = "Decimal"
         THEN (IF decimalToNumber(v) # JsNull THEN decimalToNumber(v) ELSE v)
         ELSE v

serializePositionForRedis(position) ==
    [position EXCEPT !.createdAt = serializeValue(@), !.purchasePrice = serializeValue(@)]

\* a stored payload: the JSON text of a value, or text that is not JSON
JSONstringify(value) == [kind |-> "json", value |-> value]
NotJson == [kind |-> "text", value |-> NullPosition]
JSONparseThrows(data) == data.kind # "json"
JSONparse(data) == data.value

\* new Date(value)
newDate(value) == IF value.t = "string" THEN DateValue(value.v) ELSE InvalidDate

tokenIndexKey_raw(tokenAddress) == TOKEN_POSITIONS(tokenAddress)

\* REDIS_KEYS.TOKEN_POSITIONS(tokenAddress.toLowerCase())
tokenIndexKey(tokenAddress) == TOKEN_POSITIONS(toLowerCase(tokenAddress))

\* getPosition from the answer of GET to its return: no data, a payload
\* that JSON.parse rejects, a payload whose properties cannot be read (the
\* JSON text null), or a position whose dates are revived
getPositionResult(strings, id) ==
    IF POSITION(id) \notin DOMAIN strings THEN NullPosition
    ELSE IF JSONparseThrows(strings[POSITION(id)]) THEN NullPosition
    ELSE IF JSONparse(strings[POSITION(id)]).t = "null" THEN NullPosition
    ELSE [JSONparse(strings[POSITION(id)]) EXCEPT !.createdAt = newDate(@)]

\* the positions of the system: three of agent-1 (two in wallet-1, two on
\* token "ta" under different spellings) and one of agent-2
PosIds == {"p1", "p2", "p3", "p4"}
Wallets == {"wallet-1", "wallet-2"}
positionOf(id) ==
    CASE id = "p1" -> AgentPosition("p1", "agent-1", "wallet-1", <<"T", "a">>)
      [] id = "p2" -> AgentPosition("p2", "agent-1", "wallet-2", <<"t", "a">>)
      [] id = "p3" -> AgentPosition("p3", "agent-1", "wallet-1", <<"t", "b">>)
      [] OTHER -> AgentPosition("p4", "agent-2", "wallet-1", <<"T", "A">>)
Positions == {positionOf(id) : id \in PosIds}
PositionRefs ==
    {[id |-> p.id, agentId |-> p.agentId, tokenAddress |-> p.tokenAddress] : p \in Positions}
TokenLookups ==
    {<<"T", "a">>, <<"t", "a">>, <<"T", "A">>, <<"t", "A">>, <<"t", "b">>, <<"T", "B">>}

\* a call of the service: the method, where it is, its arguments, the locals
\* of its loop (ids still to visit, the id in hand, its token address), what
\* it returns, what the store held when the call was made, and whether the
\* caller makes it only when no other call is in flight (awaited); faults is
\* the number of commands of the store's client that will reject during it
NewOp ==
    [op |-> "", pc |-> "idle", awaited |-> TRUE, faults |-> 0,
     id |-> "", agentId |-> "", walletAddress |-> "",
     tokenAddress |-> <<>>, position |-> NullPosition,
     todo |-> {}, cur |-> "", curToken |-> <<>>,
     deletedCount |-> 0, result |-> NullPosition, ids |-> {}, outcome |-> "",
     before |-> [strings |-> <<>>, sets |-> <<>>]]

\* n calls made one after the other, or n calls that may overlap
NoOps(n) == [i \in 1..n |-> NewOp]
NoOpsConcurrent(n) == [i \in 1..n |-> [NewOp EXCEPT !.awaited = FALSE]]

\* the next call to be made
FreshOp ==
    {i \in DOMAIN ops :
        /\ ops[i].pc = "idle"
        /\ \A j \in DOMAIN ops : ops[j].pc = "idle" => i <= j
        /\ ops[i].awaited => \A j \in DOMAIN ops : ops[j].pc \in {"idle", "done"}}
OpsAt(op, pc) == {i \in DOMAIN ops : ops[i].op = op /\ ops[i].pc = pc}

\* the method is called and runs to its first await
Called(op, o, pc) ==
    [o EXCEPT !.op = op, !.pc = pc,
              !.before = [strings |-> redisStrings, sets |-> redisSets]]

\* the method returns: its loop locals are gone
OpReturned(o) ==
    [o EXCEPT !.pc = "done", !.outcome = "returned", !.todo = {}, !.cur = "", !.curToken = <<>>]

OpThrew(o) ==
    [o EXCEPT !.pc = "done", !.outcome = "throws", !.todo = {}, !.cur = "", !.curToken = <<>>]

\* a command of the store's client (smembers, srem, scard, del on the client
\* of redisService.getClient()) rejects: the store is left as it was
Rejects(o) == o.faults > 0
Rejected(o) == [o EXCEPT !.faults = o.faults - 1]

\* for (const positionId of positionIds): on to the next id, or past the loop
NextIds(o, pcLoop, pcEnd) ==
    IF o.todo = {} THEN {[o EXCEPT !.pc = pcEnd, !.cur = "", !.curToken = <<>>]}
    ELSE {[o EXCEPT !.pc = pcLoop, !.cur = c, !.todo = o.todo \ {c}, !.curToken = <<>>] :
             c \in o.todo}

\* one step of a call: its record, the string keys and the set keys after it
OpStep(i, o, strings, sets) ==
    /\ ops' = [ops EXCEPT ![i] = o]
    /\ redisStrings' = strings
    /\ redisSets' = sets

getPosition_rethrow ==
    /\ \E i \in DOMAIN ops :
          LET o == ops[i] IN
          \/ /\ i \in FreshOp
             /\ \E id \in PosIds :
                   OpStep(i, Called("getPosition", [o EXCEPT !.id = id], "get"),
                          redisStrings, redisSets)
          \/ /\ i \in OpsAt("getPosition", "get")
             /\ IF POSITION(o.id) \in DOMAIN redisStrings
                   /\ getPositionResult(redisStrings, o.id) = NullPosition
                THEN OpStep(i, OpThrew(o), redisStrings, redisSets)
                ELSE OpStep(i, OpReturned([o EXCEPT !.result = getPositionResult(redisStrings, o.id)]),
                            redisStrings, redisSets)
    /\ UNCHANGED <<now, guardVars, gateVars, trigVars, schedVars, metricsVars>>

\* getPosition(id): await redisService.get(key), then parse inside try/catch
getPosition ==
    /\ \E i \in DOMAIN ops :
          LET o == ops[i] IN
          \/ /\ i \in FreshOp
             /\ \E id \in PosIds :
                   OpStep(i, Called("getPosition", [o EXCEPT !.id = id], "get"),
                          redisStrings, redisSets)
          \/ /\ i \in OpsAt("getPosition", "get")
             /\ OpStep(i, OpReturned([o EXCEPT !.result = getPositionResult(redisStrings, o.id)]),
                       redisStrings, redisSets)
    /\ UNCHANGED <<now, guardVars, gateVars, trigVars, schedVars, metricsVars>>

\* setPosition(position): await redisService.set(key, JSON.stringify(serialized)),
\* then addToIndexes: await sadd(agentKey, id), await sadd(tokenKey, id)
setPosition ==
    /\ \E i \in DOMAIN ops :
          LET o == ops[i]
              agentKey == AGENT_POSITIONS(o.position.agentId)
              tokenKey == tokenIndexKey(o.position.tokenAddress)
          IN
          \/ /\ i \in FreshOp
             /\ \E position \in Positions :
                   OpStep(i, Called("setPosition",
                                    [o EXCEPT !.position = position, !.id = position.id,
                                              !.agentId = position.agentId,
                                              !.walletAddress = position.walletAddress,
                                              !.tokenAddress = position.tokenAddress], "set"),
                          redisStrings, redisSets)
          \/ /\ i \in OpsAt("setPosition", "set")
             /\ OpStep(i, [o EXCEPT !.pc = "sadd_agent"],
                       redisSet(redisStrings, POSITION(o.position.id),
                                JSONstringify(serializePositionForRedis(o.position))),
                       redisSets)
          \/ /\ i \in OpsAt("setPosition", "sadd_agent")
             /\ OpStep(i, [o EXCEPT !.pc = "sadd_token"], redisStrings,
                       sadd(redisSets, agentKey, o.position.id))
          \/ /\ i \in OpsAt("setPosition", "sadd_token")
             /\ OpStep(i, OpReturned(o), redisStrings, sadd(redisSets, tokenKey, o.position.id))
    /\ UNCHANGED <<now, guardVars, gateVars, trigVars, schedVars, metricsVars>>

deletePosition_keepTokenIndex ==
    /\ \E i \in DOMAIN ops :
          LET o == ops[i]
              agentKey == AGENT_POSITIONS(o.agentId)
              tokenKey == tokenIndexKey(o.tokenAddress)
          IN
          \/ /\ i \in FreshOp
             /\ \E ref \in PositionRefs :
                   OpStep(i, Called("deletePosition",
                                    [o EXCEPT !.id = ref.id, !.agentId = ref.agentId,
                                              !.tokenAddress = ref.tokenAddress], "del"),
                          redisStrings, redisSets)
          \/ /\ i \in OpsAt("deletePosition", "del")
             /\ OpStep(i, [o EXCEPT !.pc = "srem_agent"],
                       redisDel(redisStrings, POSITION(o.id)), redisSets)
          \/ /\ i \in OpsAt("deletePosition", "srem_agent")
             /\ OpStep(i, [o EXCEPT !.pc = "scard_agent"], redisStrings,
                       srem(redisSets, agentKey, o.id))
          \/ /\ i \in OpsAt("deletePosition", "scard_agent")
             /\ OpStep(i, IF scard(redisSets, agentKey) = 0
                          THEN [o EXCEPT !.pc = "del_agent"] ELSE OpReturned(o),
                       redisStrings, redisSets)
          \/ /\ i \in OpsAt("deletePosition", "del_agent")
             /\ OpStep(i, OpReturned(o), redisStrings, redisDel(redisSets, agentKey))
    /\ UNCHANGED <<now, guardVars, gateVars, trigVars, schedVars, metricsVars>>

\* deletePosition(position): await redisService.del(key), then
\* removeFromIndexes: await srem on both index keys, then for each index
\* await scard and, when it answers 0, await del of the index key
deletePosition ==
    /\ \E i \in DOMAIN ops :
          LET o == ops[i]
              agentKey == AGENT_POSITIONS(o.agentId)
              tokenKey == tokenIndexKey(o.tokenAddress)
          IN
          \/ /\ i \in FreshOp
             /\ \E ref \in PositionRefs :
                   OpStep(i, Called("deletePosition",
                                    [o EXCEPT !.id = ref.id, !.agentId = ref.agentId,
                                              !.tokenAddress = ref.tokenAddress], "del"),
                          redisStrings, redisSets)
          \/ /\ i \in OpsAt("deletePosition", "del")
             /\ OpStep(i, [o EXCEPT !.pc = "srem_agent"],
                       redisDel(redisStrings, POSITION(o.id)), redisSets)
          \/ /\ i \in OpsAt("deletePosition", "srem_agent")
             /\ OpStep(i, [o EXCEPT !.pc = "srem_token"], redisStrings,
                       srem(redisSets, agentKey, o.id))
          \/ /\ i \in OpsAt("deletePosition", "srem_token")
             /\ OpStep(i, [o EXCEPT !.pc = "scard_agent"], redisStrings,
                       srem(redisSets, tokenKey, o.id))
          \/ /\ i \in OpsAt("deletePosition", "scard_agent")
             /\ OpStep(i, [o EXCEPT !.pc = IF scard(redisSets, agentKey) = 0
                                           THEN "del_agent" ELSE "scard_token"],
                       redisStrings, redisSets)
          \/ /\ i \in OpsAt("deletePosition", "del_agent")
             /\ OpStep(i, [o EXCEPT !.pc = "scard_token"], redisStrings,
                       redisDel(redisSets, agentKey))
          \/ /\ i \in OpsAt("deletePosition", "scard_token")
             /\ OpStep(i, IF scard(redisSets, tokenKey) = 0
                          THEN [o EXCEPT !.pc = "del_token"] ELSE OpReturned(o),
                       redisStrings, redisSets)
          \/ /\ i \in OpsAt("deletePosition", "del_token")
             /\ OpStep(i, OpReturned(o), redisStrings, redisDel(redisSets, tokenKey))
    /\ UNCHANGED <<now, guardVars, gateVars, trigVars, schedVars, metricsVars>>

\* getAgentPositionIds(agentId): await client.smembers(key)
getAgentPositionIds ==
    /\ \E i \in DOMAIN ops :
          LET o == ops[i] IN
          \/ /\ i \in FreshOp
             /\ \E agentId \in AgentIds :
                   OpStep(i, Called("getAgentPositionIds", [o EXCEPT !.agentId = agentId],
                                    "smembers"),
                          redisStrings, redisSets)
          \/ /\ i \in OpsAt("getAgentPositionIds", "smembers")
             /\ OpStep(i, OpReturned([o EXCEPT !.ids = smembers(redisSets, AGENT_POSITIONS(o.agentId))]),
                       redisStrings, redisSets)
    /\ UNCHANGED <<now, guardVars, gateVars, trigVars, schedVars, metricsVars>>

\* what getTokenPositionIds(tokenAddress) reads: the set under the key of
\* the lower-cased address
tokenPositionIds(sets, tokenAddress) == smembers(sets, tokenIndexKey(tokenAddress))

\* getTokenPositionIds(tokenAddress): await client.smembers(key)
getTokenPositionIds ==
    /\ \E i \in DOMAIN ops :
          LET o == ops[i] IN
          \/ /\ i \in FreshOp
             /\ \E tokenAddress \in TokenLookups :
                   OpStep(i, Called("getTokenPositionIds",
                                    [o EXCEPT !.tokenAddress = tokenAddress], "smembers"),
                          redisStrings, redisSets)
          \/ /\ i \in OpsAt("getTokenPositionIds", "smembers")
             /\ OpStep(i, OpReturned([o EXCEPT !.ids = tokenPositionIds(redisSets, o.tokenAddress)]),
                       redisStrings, redisSets)
    /\ UNCHANGED <<now, guardVars, gateVars, trigVars, schedVars, metricsVars>>

deleteAgentPositions_abortOnMalformed ==
    /\ \E i \in DOMAIN ops :
          LET o == ops[i]
              agentKey == AGENT_POSITIONS(o.agentId)
              tokenKey == tokenIndexKey(o.curToken)
          IN
          \/ /\ i \in FreshOp
             /\ \E agentId \in AgentIds :
                   OpStep(i, Called("deleteAgentPositions", [o EXCEPT !.agentId = agentId],
                                    "smembers"),
                          redisStrings, redisSets)
          \/ /\ i \in OpsAt("deleteAgentPositions", "smembers")
             /\ LET positionIds == smembers(redisSets, agentKey) IN
                IF positionIds = {}
                THEN OpStep(i, OpReturned(o), redisStrings, redisSets)
                ELSE \E o2 \in NextIds([o EXCEPT !.todo = positionIds, !.ids = positionIds],
                                       "get", "del_agent") :
                        OpStep(i, o2, redisStrings, redisSets)
          \/ /\ i \in OpsAt("deleteAgentPositions", "get")
             /\ OpStep(i, IF getPositionResult(redisStrings, o.cur) = NullPosition
                          THEN (IF POSITION(o.cur) \in DOMAIN redisStrings
                                THEN OpThrew(o) ELSE [o EXCEPT !.pc = "del"])
                          ELSE [o EXCEPT !.pc = "srem_token",
                                         !.curToken = JSONparse(redisStrings[POSITION(o.cur)]).tokenAddress],
                       redisStrings, redisSets)
          \/ /\ i \in OpsAt("deleteAgentPositions", "srem_token")
             /\ OpStep(i, [o EXCEPT !.pc = "scard_token"], redisStrings,
                       srem(redisSets, tokenKey, o.cur))
          \/ /\ i \in OpsAt("deleteAgentPositions", "scard_token")
             /\ OpStep(i, [o EXCEPT !.pc = IF scard(redisSets, tokenKey) = 0
                                           THEN "del_token" ELSE "del"],
                       redisStrings, redisSets)
          \/ /\ i \in OpsAt("deleteAgentPositions", "del_token")
             /\ OpStep(i, [o EXCEPT !.pc = "del"], redisStrings, redisDel(redisSets, tokenKey))
          \/ /\ i \in OpsAt("deleteAgentPositions", "del")
             /\ \E o2 \in NextIds(o, "get", "del_agent") :
                   OpStep(i, o2, redisDel(redisStrings, POSITION(o.cur)), redisSets)
          \/ /\ i \in OpsAt("deleteAgentPositions", "del_agent")
             /\ OpStep(i, OpReturned(o), redisStrings, redisDel(redisSets, agentKey))
    /\ UNCHANGED <<now, guardVars, gateVars, trigVars, schedVars, metricsVars>>

\* deleteAgentPositions(agentId): the ids of the agent index; for each the
\* payload is read and, when it parses, the id leaves its token index (the
\* index key deleted when scard answers 0); the payload is deleted; at the
\* end the agent index key is deleted
deleteAgentPositions ==
    /\ \E i \in DOMAIN ops :
          LET o == ops[i]
              agentKey == AGENT_POSITIONS(o.agentId)
              tokenKey == tokenIndexKey(o.curToken)
          IN
          \/ /\ i \in FreshOp
             /\ \E agentId \in AgentIds :
                   OpStep(i, Called("deleteAgentPositions", [o EXCEPT !.agentId = agentId],
                                    "smembers"),
                          redisStrings, redisSets)
          \/ /\ i \in OpsAt("deleteAgentPositions", "smembers")
             /\ LET positionIds == smembers(redisSets, agentKey) IN
                IF positionIds = {}
                THEN OpStep(i, OpReturned(o), redisStrings, redisSets)
                ELSE \E o2 \in NextIds([o EXCEPT !.todo = positionIds, !.ids = positionIds],
                                       "get", "del_agent") :
                        OpStep(i, o2, redisStrings, redisSets)
          \/ /\ i \in OpsAt("deleteAgentPositions", "get")
             /\ OpStep(i, IF getPositionResult(redisStrings, o.cur) = NullPosition
                          THEN [o EXCEPT !.pc = "del"]
                          ELSE [o EXCEPT !.pc = "srem_token",
                                         !.curToken = JSONparse(redisStrings[POSITION(o.cur)]).tokenAddress],
                       redisStrings, redisSets)
          \/ /\ i \in OpsAt("deleteAgentPositions", "srem_token")
             /\ OpStep(i, [o EXCEPT !.pc = "scard_token"], redisStrings,
                       srem(redisSets, tokenKey, o.cur))
          \/ /\ i \in OpsAt("deleteAgentPositions", "scard_token")
             /\ OpStep(i, [o EXCEPT !.pc = IF scard(redisSets, tokenKey) = 0
                                           THEN "del_token" ELSE "del"],
                       redisStrings, redisSets)
          \/ /\ i \in OpsAt("deleteAgentPositions", "del_token")
             /\ OpStep(i, [o EXCEPT !.pc = "del"], redisStrings, redisDel(redisSets, tokenKey))
          \/ /\ i \in OpsAt("deleteAgentPositions", "del")
             /\ \E o2 \in NextIds(o, "get", "del_agent") :
                   OpStep(i, o2, redisDel(redisStrings, POSITION(o.cur)), redisSets)
          \/ /\ i \in OpsAt("deleteAgentPositions", "del_agent")
             /\ OpStep(i, OpReturned(o), redisStrings, redisDel(redisSets, agentKey))
    /\ UNCHANGED <<now, guardVars, gateVars, trigVars, schedVars, metricsVars>>

\* what deleteWalletPositions finds for an id of the agent index: no
\* payload, a payload that throws inside its try block (JSON.parse, or the
\* property read on null), a payload of another wallet, or one of the wallet
sweepCase_malformedSkipped(strings, positionId, walletAddress) ==
    IF POSITION(positionId) \notin DOMAIN strings THEN "missing"
    ELSE IF JSONparseThrows(strings[POSITION(positionId)]) THEN "other"
    ELSE IF JSONparse(strings[POSITION(positionId)]).t = "null" THEN "other"
    ELSE IF JSONparse(strings[POSITION(positionId)]).walletAddress # walletAddress THEN "other"
    ELSE "match"

sweepCase_staleKept(strings, positionId, walletAddress) ==
    IF POSITION(positionId) \notin DOMAIN strings THEN "other"
    ELSE IF JSONparseThrows(strings[POSITION(positionId)]) THEN "malformed"
    ELSE IF JSONparse(strings[POSITION(positionId)]).t = "null" THEN "malformed"
    ELSE IF JSONparse(strings[POSITION(positionId)]).walletAddress # walletAddress THEN "other"
    ELSE "match"

sweepCase_anyWallet(strings, positionId, walletAddress) ==
    IF POSITION(positionId) \notin DOMAIN strings THEN "missing"
    ELSE IF JSONparseThrows(strings[POSITION(positionId)]) THEN "malformed"
    ELSE IF JSONparse(strings[POSITION(positionId)]).t = "null" THEN "malformed"
    ELSE "match"

sweepCase(strings, positionId, walletAddress) ==
    IF POSITION(positionId) \notin DOMAIN strings THEN "missing"
    ELSE IF JSONparseThrows(strings[POSITION(positionId)]) THEN "malformed"
    ELSE IF JSONparse(strings[POSITION(positionId)]).t = "null" THEN "malformed"
    ELSE IF JSONparse(strings[POSITION(positionId)]).walletAddress # walletAddress THEN "other"
    ELSE "match"

\* deleteWalletPositions(agentId, walletAddress): the ids of the agent
\* index; a stale id leaves the index; a payload of another wallet is
\* skipped; a payload of the wallet is deleted and unlinked from both
\* indexes; a malformed payload is deleted and unlinked from the agent
\* index; at the end the agent index key is deleted when scard answers 0
deleteWalletPositions ==
    /\ \E i \in DOMAIN ops :
          LET o == ops[i]
              agentKey == AGENT_POSITIONS(o.agentId)
              tokenKey == tokenIndexKey(o.curToken)
              counted == [o EXCEPT !.deletedCount = o.deletedCount + 1]
              \* a rejection outside the try block leaves the method; one
              \* inside the try block is caught with the malformed payloads
              leaves == OpStep(i, OpThrew(Rejected(o)), redisStrings, redisSets)
              caught == OpStep(i, [Rejected(o) EXCEPT !.pc = "catch_del"], redisStrings, redisSets)
          IN
          \/ /\ i \in FreshOp
             /\ \E agentId \in AgentIds, walletAddress \in Wallets :
                   OpStep(i, Called("deleteWalletPositions",
                                    [o EXCEPT !.agentId = agentId, !.walletAddress = walletAddress],
                                    "smembers"),
                          redisStrings, redisSets)
          \/ /\ i \in OpsAt("deleteWalletPositions", "smembers")
             /\ \/ LET positionIds == smembers(redisSets, agentKey) IN
                   \E o2 \in NextIds([o EXCEPT !.todo = positionIds, !.ids = positionIds],
                                     "get", "scard_agent") :
                      OpStep(i, o2, redisStrings, redisSets)
                \/ Rejects(o) /\ leaves
          \/ /\ i \in OpsAt("deleteWalletPositions", "get")
             /\ LET case == sweepCase(redisStrings, o.cur, o.walletAddress) IN
                \/ /\ case = "missing"
                   /\ OpStep(i, [o EXCEPT !.pc = "srem_stale"], redisStrings, redisSets)
                \/ /\ case = "malformed"
                   /\ OpStep(i, [o EXCEPT !.pc = "catch_del"], redisStrings, redisSets)
                \/ /\ case = "other"
                   /\ \E o2 \in NextIds(o, "get", "scard_agent") :
                         OpStep(i, o2, redisStrings, redisSets)
                \/ /\ case = "match"
                   /\ OpStep(i, [o EXCEPT !.pc = "del",
                                          !.curToken = JSONparse(redisStrings[POSITION(o.cur)]).tokenAddress],
                             redisStrings, redisSets)
          \/ /\ i \in OpsAt("deleteWalletPositions", "srem_stale")
             /\ \/ \E o2 \in NextIds(o, "get", "scard_agent") :
                      OpStep(i, o2, redisStrings, srem(redisSets, agentKey, o.cur))
                \/ Rejects(o) /\ leaves
          \/ /\ i \in OpsAt("deleteWalletPositions", "del")
             /\ OpStep(i, [o EXCEPT !.pc = "srem_agent"],
                       redisDel(redisStrings, POSITION(o.cur)), redisSets)
          \/ /\ i \in OpsAt("deleteWalletPositions", "srem_agent")
             /\ \/ IF o.curToken # <<>>
                   THEN OpStep(i, [o EXCEPT !.pc = "srem_token"], redisStrings,
                               srem(redisSets, agentKey, o.cur))
                   ELSE \E o2 \in NextIds(counted, "get", "scard_agent") :
                           OpStep(i, o2, redisStrings, srem(redisSets, agentKey, o.cur))
                \/ Rejects(o) /\ caught
          \/ /\ i \in OpsAt("deleteWalletPositions", "srem_token")
             /\ \/ OpStep(i, [o EXCEPT !.pc = "scard_token"], redisStrings,
                          srem(redisSets, tokenKey, o.cur))
                \/ Rejects(o) /\ caught
          \/ /\ i \in OpsAt("deleteWalletPositions", "scard_token")
             /\ \/ IF scard(redisSets, tokenKey) = 0
                   THEN OpStep(i, [o EXCEPT !.pc = "del_token"], redisStrings, redisSets)
                   ELSE \E o2 \in NextIds(counted, "get", "scard_agent") :
                           OpStep(i, o2, redisStrings, redisSets)
                \/ Rejects(o) /\ caught
          \/ /\ i \in OpsAt("deleteWalletPositions", "del_token")
             /\ \/ \E o2 \in NextIds(counted, "get", "scard_agent") :
                      OpStep(i, o2, redisStrings, redisDel(redisSets, tokenKey))
                \/ Rejects(o) /\ caught
          \/ /\ i \in OpsAt("deleteWalletPositions", "catch_del")
             /\ OpStep(i, [o EXCEPT !.pc = "catch_srem"],
                       redisDel(redisStrings, POSITION(o.cur)), redisSets)
          \/ /\ i \in OpsAt("deleteWalletPositions", "catch_srem")
             /\ \/ \E o2 \in NextIds(counted, "get", "scard_agent") :
                      OpStep(i, o2, redisStrings, srem(redisSets, agentKey, o.cur))
                \/ Rejects(o) /\ leaves
          \/ /\ i \in OpsAt("deleteWalletPositions", "scard_agent")
             /\ \/ OpStep(i, IF scard(redisSets, agentKey) = 0
                             THEN [o EXCEPT !.pc = "del_agent"] ELSE OpReturned(o),
                          redisStrings, redisSets)
                \/ Rejects(o) /\ leaves
          \/ /\ i \in OpsAt("deleteWalletPositions", "del_agent")
             /\ \/ OpStep(i, OpReturned(o), redisStrings, redisDel(redisSets, agentKey))
                \/ Rejects(o) /\ leaves
    /\ UNCHANGED <<now, guardVars, gateVars, trigVars, schedVars, metricsVars>>

\* what the store may hold for a position: nothing, the payload with both
\* index entries, the index entries without a payload, or the index entries
\* with a payload that is not JSON or is the JSON text null
CacheStates == {"absent", "cached", "stale", "notJson", "jsonNull"}

payloadOf(id, state) ==
    CASE state = "cached" -> JSONstringify(serializePositionForRedis(positionOf(id)))
      [] state = "notJson" -> NotJson
      [] OTHER -> JSONstringify(NullPosition)

stringsOf(st) ==
    [k \in {POSITION(id) : id \in {x \in DOMAIN st : st[x] \notin {"absent", "stale"}}} |->
        payloadOf(k[2], st[k[2]])]

indexOf(st, key) ==
    {id \in DOMAIN st :
        /\ st[id] # "absent"
        /\ key \in {AGENT_POSITIONS(positionOf(id).agentId),
                    tokenIndexKey(positionOf(id).tokenAddress)}}

IndexKeys ==
    {AGENT_POSITIONS(a) : a \in AgentIds} \cup {tokenIndexKey(p.tokenAddress) : p \in Positions}

setsOf(st) == [k \in {x \in IndexKeys : indexOf(st, x) # {}} |-> indexOf(st, k)]

\* one call at a time, from any of these stores
MaxOps == 1

InitPositions ==
    /\ now = 0 /\ GuardIdle /\ GateIdle /\ TriggersIdle /\ SchedulerIdle /\ MetricsIdle
    /\ \E st \in [PosIds -> CacheStates] :
          /\ st["p4"] \in {"absent", "cached"}
          /\ redisStrings = stringsOf(st)
          /\ redisSets = setsOf(st)
    /\ ops = NoOps(MaxOps)

NextPositions ==
    \/ getPosition
    \/ setPosition
    \/ deletePosition
    \/ getAgentPositionIds
    \/ getTokenPositionIds
    \/ deleteAgentPositions
    \/ deleteWalletPositions

SpecPositions == InitPositions /\ [][NextPositions]_vars

\* one sweep of a wallet during which commands of the store's client reject
MaxFaults == 1

InitPositionsFaulty ==
    /\ now = 0 /\ GuardIdle /\ GateIdle /\ TriggersIdle /\ SchedulerIdle /\ MetricsIdle
    /\ \E st \in [PosIds -> CacheStates] :
          /\ st["p4"] \in {"absent", "cached"}
          /\ redisStrings = stringsOf(st)
          /\ redisSets = setsOf(st)
    /\ \E n \in 0..MaxFaults : ops = [i \in 1..1 |-> [NewOp EXCEPT !.faults = n]]

NextPositionsFaulty == deleteWalletPositions

SpecPositionsFaulty == InitPositionsFaulty /\ [][NextPositionsFaulty]_vars

\* two calls of setPosition and deletePosition in flight at once
MaxRacers == 2

InitPositionsRace ==
    /\ now = 0 /\ GuardIdle /\ GateIdle /\ TriggersIdle /\ SchedulerIdle /\ MetricsIdle
    /\ \E st \in [PosIds -> {"absent", "cached"}] :
          /\ st["p3"] = "absent" /\ st["p4"] = "absent"
          /\ redisStrings = stringsOf(st)
          /\ redisSets = setsOf(st)
    /\ ops = NoOpsConcurrent(MaxRacers)

NextPositionsRace ==
    \/ setPosition
    \/ deletePosition

SpecPositionsRace == InitPositionsRace /\ [][NextPositionsRace]_vars

-----------------------------------------------------------------------------
(* Config save: updateAgentTradingConfig and its immediate purchases       *)

\* getImmediateAutoTradeTokens(previousConfig, nextConfig)
getImmediateAutoTradeTokens(previousAutoTrade, nextAutoTrade) ==
    IF ~autoTradeEnabled(nextAutoTrade) THEN <<>>
    ELSE LET previousEnabled == autoTradeEnabled(previousAutoTrade)
             previousEnabledSet ==
                 {normalizeToken(previousAutoTrade.tokens[k].address) :
                     k \in {j \in 1..Len(previousAutoTrade.tokens) : previousAutoTrade.tokens[j].enabled}}
             nextEnabledTokens == enabledTokens(nextAutoTrade)
         IN  IF ~previousEnabled THEN nextEnabledTokens
             ELSE SelectSeq(nextEnabledTokens,
                            LAMBDA token : normalizeToken(token.address) \notin previousEnabledSet)

\* PUT /api/agents/:id/config with a config that sets autoTrade; the request
\* passes the checks of lines 110-150 and reaches loadAgentConfig
updateAgentTradingConfig ==
    /\ \E i \in Fresh("save"), partialConfig \in AutoTradeChoices \ {AutoTradeUndefined} :
          procs' = [procs EXCEPT ![i] =
              [NewProc("save", "loadAgentConfig") EXCEPT
                  !.agentId = "agent-1", !.partialConfig = partialConfig]]
    /\ UNCHANGED <<svcVars, now, guardVars, gateVars, config, purchases>>

\* existingConfig = await configService.loadAgentConfig(id); mergeConfigs;
\* validateConfig (the merged config may be rejected)
saveLoadConfig ==
    /\ \E i \in At("save", "loadAgentConfig") :
          LET p == [procs[i] EXCEPT !.loaded = TRUE] IN
          \/ procs' = [procs EXCEPT ![i] = Ended(p, "error")]
          \/ procs' = [procs EXCEPT ![i] = Ended(p, "rejected")]
          \/ procs' = [procs EXCEPT ![i] =
                [p EXCEPT !.pc = "updateAgentConfig", !.existingConfig = config[p.agentId]]]
    /\ UNCHANGED <<svcVars, now, guardVars, gateVars, config, purchases>>

\* updatedConfig = await agentService.updateAgentConfig(id, finalConfig), then
\* getImmediateAutoTradeTokens(existingConfig, updatedConfig)
saveUpdateConfig ==
    /\ \E i \in At("save", "updateAgentConfig") :
          LET p == procs[i]
              immediateTokens == getImmediateAutoTradeTokens(p.existingConfig, p.partialConfig)
          IN
          \/ /\ procs' = [procs EXCEPT ![i] = Ended(p, "error")]
             /\ UNCHANGED config
          \/ /\ config' = [config EXCEPT ![p.agentId] = p.partialConfig]
             /\ procs' = [procs EXCEPT ![i] =
                   IF immediateTokens = <<>> THEN Ended(p, "saved")
                   ELSE [p EXCEPT !.pc = "executePurchase", !.tokensLeft = immediateTokens,
                                  !.token = immediateTokens[1]]]
    /\ UNCHANGED <<svcVars, now, guardVars, gateVars, purchases>>

\* one iteration of the immediateTokens loop: createImmediateAutoTradeSignal,
\* then tradingExecutor.executePurchase in the try/catch
saveImmediatePurchase ==
    /\ \E i \in At("save", "executePurchase") :
          LET p == procs[i] IN
          \E signalId \in SignalIds :
             /\ purchases' = purchases \cup {Purchase(i, p, "save", "", trim(p.token.address), signalId)}
             /\ procs' = [procs EXCEPT ![i] =
                   IF Len(p.tokensLeft) <= 1 THEN Ended(p, "saved")
                   ELSE [p EXCEPT !.tokensLeft = Tail(p.tokensLeft), !.token = p.tokensLeft[2]]]
    /\ UNCHANGED <<svcVars, now, guardVars, gateVars, config>>

-----------------------------------------------------------------------------
(* The trigger paths against one gate store and one clock                  *)

MaxTicks == 2
TickMs == (RECONCILE_LOCK_TTL_SECONDS * 1000) \div 2

\* time passes; expired keys leave the store
Tick ==
    /\ now < MaxTicks * TickMs
    /\ now' = now + TickMs
    /\ gateStore' = expireKeys(gateStore, now')
    /\ UNCHANGED <<svcVars, guardVars, callers, gateLog, trigVars>>

\* agent-1 starts with any of the configs, agent-2 with the given one
InitConfig(autoTrade2) ==
    config \in {c \in [AgentIds -> AutoTradeChoices] : c["agent-2"] = autoTrade2}

\* one event delivery, one reconciliation cycle and one config save; agent-1
\* starts without auto-trade or with two enabled tokens that have bounds
Init ==
    /\ now = 0 /\ GuardIdle /\ GateIdle /\ ServicesIdle
    /\ InitConfig(AutoTradeUndefined)
    /\ config["agent-1"] \in {AutoTradeUndefined, AutoTrade(TRUE, <<TokABounded, TokB>>)}
    /\ procs = NoProcs(1, 1, 1)
    /\ purchases = {}

Next ==
    \/ emitPositionClosed
    \/ reentryCheckAndSet
    \/ reentryLoadConfig
    \/ reentryGuard
    \/ reentryPurchase
    \/ timerFires
    \/ runCycle
    \/ reconcileAgentLoadConfig
    \/ reconcileAgentFindWallet
    \/ reconcileTokenCheckAndSet
    \/ reconcileTokenFindPosition
    \/ reconcileTokenGuard
    \/ reconcileTokenPurchase
    \/ reconcileNextToken
    \/ reconcileNextAgent
    \/ updateAgentTradingConfig
    \/ saveLoadConfig
    \/ saveUpdateConfig
    \/ saveImmediatePurchase
    \/ Tick

Spec == Init /\ [][Next]_vars

\* deliveries of position_closed events only
MaxDeliveries == 2

InitReentry ==
    /\ now = 0 /\ GuardIdle /\ GateIdle /\ ServicesIdle
    /\ InitConfig(AutoTradeUndefined)
    /\ procs = NoProcs(MaxDeliveries, 0, 0)
    /\ purchases = {}

NextReentry ==
    \/ emitPositionClosed
    \/ reentryCheckAndSet
    \/ reentryLoadConfig
    \/ reentryGuard
    \/ reentryPurchase
    \/ Tick

SpecReentry == InitReentry /\ [][NextReentry]_vars

\* overlapping reconciliation cycles only
MaxCycles == 2

InitReconcile ==
    /\ now = 0 /\ GuardIdle /\ GateIdle /\ ServicesIdle
    /\ InitConfig(AutoTrade(TRUE, <<TokA, TokBOff>>))
    /\ procs = NoProcs(0, MaxCycles, 0)
    /\ purchases = {}

NextReconcile ==
    \/ timerFires
    \/ runCycle
    \/ reconcileAgentLoadConfig
    \/ reconcileAgentFindWallet
    \/ reconcileTokenCheckAndSet
    \/ reconcileTokenFindPosition
    \/ reconcileTokenGuard
    \/ reconcileTokenPurchase
    \/ reconcileNextToken
    \/ reconcileNextAgent
    \/ Tick

SpecReconcile == InitReconcile /\ [][NextReconcile]_vars

\* one reconciliation cycle over an agent with two enabled tokens
InitExecutor ==
    /\ now = 0 /\ GuardIdle /\ GateIdle /\ ServicesIdle
    /\ InitConfig(AutoTrade(TRUE, <<TokABounded, TokB>>))
    /\ procs = NoProcs(0, 1, 0)
    /\ purchases = {}

SpecExecutor == InitExecutor /\ [][NextReconcile]_vars

\* one process's scheduler, started and stopped at any time, and its cycles
MaxSchedCycles == 2

InitScheduler ==
    /\ now = 0 /\ GuardIdle /\ GateIdle /\ ServicesIdle
    /\ config = [a \in AgentIds |->
                    IF a = "agent-2" THEN AutoTrade(TRUE, <<TokA, TokBOff>>) ELSE AutoTradeUndefined]
    /\ procs = NoProcs(0, MaxSchedCycles, 0)
    /\ purchases = {}

\* one interval passes while no armed timer is due; expired keys leave the
\* store
LifeTick ==
    /\ now < RECONCILE_INTERVAL_MS
    /\ \A h \in DOMAIN timers : now < timers[h]
    /\ now' = now + RECONCILE_INTERVAL_MS
    /\ gateStore' = expireKeys(gateStore, now')
    /\ UNCHANGED <<svcVars, guardVars, callers, gateLog, trigVars>>

\* the two managers of one process from module load: nothing registered,
\* no timer armed; room for one cycle and for one event delivered to every
\* registration of the handler
InitLifecycle ==
    /\ now = 0 /\ GuardIdle /\ GateIdle /\ MetricsIdle /\ PositionsIdle
    /\ interval = NoTimer /\ timers = <<>> /\ timerSeq = 0
    /\ listeners = 0 /\ reentryShutDown = FALSE
    /\ config = [a \in AgentIds |->
                    IF a = "agent-1" THEN AutoTrade(TRUE, <<TokA, TokBOff>>) ELSE AutoTradeUndefined]
    /\ procs = NoProcs(MaxListeners, 1, 0)
    /\ purchases = {}

NextLifecycle ==
    \/ initialize
    \/ shutdown
    \/ initializeAutoTradeReentryManager
    \/ shutdownAutoTradeReentryManager
    \/ intervalFires
    \/ emitPositionClosed
    \/ reentryCheckAndSet
    \/ reentryLoadConfig
    \/ reentryGuard
    \/ reentryPurchase
    \/ runCycle
    \/ reconcileAgentLoadConfig
    \/ reconcileAgentFindWallet
    \/ reconcileTokenCheckAndSet
    \/ reconcileTokenFindPosition
    \/ reconcileTokenGuard
    \/ reconcileTokenPurchase
    \/ reconcileNextToken
    \/ reconcileNextAgent
    \/ LifeTick

SpecLifecycle == InitLifecycle /\ [][NextLifecycle]_vars

\* the scheduler left to run after initialize() at time 0, with one agent
\* whose auto-trade is on and has one enabled token, under the conditions of
\* a retry: the agent stays active and keeps its wallet, the token has no
\* open position, the guard allows it when it answers, and the collaborators
\* stop failing after MaxFaultyIntervals intervals
MaxFaultyIntervals == 1
FailuresStopAt == (MaxFaultyIntervals + 1) * RECONCILE_INTERVAL_MS
RetryHorizon == FailuresStopAt + RECONCILE_INTERVAL_MS

InitRetry ==
    /\ now = 0 /\ GuardIdle /\ GateIdle /\ MetricsIdle /\ PositionsIdle
    /\ interval = 1 /\ timers = <<RECONCILE_INTERVAL_MS>> /\ timerSeq = 1
    /\ listeners = 1 /\ reentryShutDown = FALSE
    /\ config = [a \in AgentIds |->
                    IF a = "agent-1" THEN AutoTrade(TRUE, <<TokABounded, TokBOff>>)
                    ELSE AutoTradeUndefined]
    /\ procs = NoProcs(0, MaxFaultyIntervals + 2, 0)
    /\ purchases = {}

\* a step in which a collaborator of a cycle rejects
CollaboratorFails(p, q) ==
    \/ q.failed /\ ~p.failed
    \/ q.outcome = "cycle_failed" /\ p.outcome # "cycle_failed"

\* a step in which a collaborator answers against the conditions of the retry
ConditionBroken(p, q) ==
    \/ q.outcome = "no_agents"
    \/ /\ p.pc = "getActiveAgentIds" /\ q.pc = "loadAgentConfig"
       /\ \A n \in DOMAIN q.agentsLeft : q.agentsLeft[n] # "agent-1"
    \/ p.pc = "findWalletByAgentId" /\ q.pc = "agentDone" /\ ~q.failed
    \/ q.position = "found"
    \/ q.guard \notin AllowedReasons \cup {"", "throws"}

RetryConditions ==
    \A i \in DOMAIN procs :
        /\ ~ConditionBroken(procs[i], procs'[i])
        /\ CollaboratorFails(procs[i], procs'[i]) => now < FailuresStopAt

\* time passes while no armed timer is due; expired keys leave the store
RetryTick ==
    /\ now < RetryHorizon
    /\ \A h \in DOMAIN timers : now < timers[h]
    /\ now' = now + SchedTickMs
    /\ gateStore' = expireKeys(gateStore, now')
    /\ UNCHANGED <<svcVars, guardVars, callers, gateLog, trigVars>>

NextRetry ==
    \/ intervalFires
    \/ runCycle /\ RetryConditions
    \/ reconcileAgentLoadConfig /\ RetryConditions
    \/ reconcileAgentFindWallet /\ RetryConditions
    \/ reconcileTokenCheckAndSet /\ RetryConditions
    \/ reconcileTokenFindPosition /\ RetryConditions
    \/ reconcileTokenGuard /\ RetryConditions
    \/ reconcileTokenPurchase
    \/ reconcileNextToken
    \/ reconcileNextAgent
    \/ RetryTick

\* setInterval keeps firing the callback while the process runs, and the
\* event loop resumes every cycle whose await has settled
SpecRetry ==
    /\ InitRetry /\ [][NextRetry]_vars
    /\ WF_vars(RetryTick)
    /\ WF_vars(intervalFires)
    /\ WF_vars(NextRetry)

NextScheduler ==
    \/ initialize
    \/ shutdown
    \/ intervalFires
    \/ runCycle
    \/ reconcileAgentLoadConfig
    \/ reconcileAgentFindWallet
    \/ reconcileTokenCheckAndSet
    \/ reconcileTokenFindPosition
    \/ reconcileTokenGuard
    \/ reconcileTokenPurchase
    \/ reconcileNextToken
    \/ reconcileNextAgent
    \/ SchedTick

SpecScheduler == InitScheduler /\ [][NextScheduler]_vars

-----------------------------------------------------------------------------
(* Properties of the market-cap guard, checked under SpecGuard.            *)

\* a bound is set when it is neither absent (undefined) nor null; 0 is set
BoundSet(b) == b.t = "number"
BothUnset(tokenBounds) ==
    \/ tokenBounds.t # "object"
    \/ ~BoundSet(tokenBounds.marketCapMin) /\ ~BoundSet(tokenBounds.marketCapMax)
MarketCapUnresolved(metrics) == metrics.t = "null" \/ metrics.mcap.t # "number"

\* C6: with marketCapMin and marketCapMax both unset (undefined or null bounds,
\* the empty object, null or absent properties) the guard returns allowed=true,
\* reason no_bounds_configured, marketCap=null, and fetchTokenMetrics is never
\* called, at no point of the evaluation.
C6_NoBoundsAllowsWithoutFetch ==
    BothUnset(guardIn.tokenBounds) =>
        /\ guardFetchCalls = 0
        /\ guardPc # "awaitMetrics"
        /\ guardPc = "returned" =>
              /\ guardResult.allowed = TRUE
              /\ guardResult.reason = no_bounds_configured
              /\ guardResult.marketCap = JsNull

C6_Witness ==
    /\ guardPc = "returned"
    /\ guardIn.tokenBounds = BoundsObject(JsNull, JsUndefined)
    /\ guardResult = GuardResult(TRUE, no_bounds_configured, JsNull)
    /\ guardFetchCalls = 0

\* C7: fail-closed. With at least one bound set, when fetchTokenMetrics yields
\* null or metrics whose market cap is null, the guard returns allowed=false,
\* reason metrics_unavailable, marketCap=null; and no returned result that is
\* allowed was computed from a fetch outcome without a market cap.
C7_FailClosed ==
    (guardPc = "returned" /\ MarketCapUnresolved(guardMetrics)) =>
        /\ ~BothUnset(guardIn.tokenBounds) =>
              guardResult = GuardResult(FALSE, metrics_unavailable, JsNull)
        /\ (guardFetchCalls > 0) => ~guardResult.allowed

C7_Witness ==
    /\ guardPc = "returned"
    /\ guardFetchCalls = 1
    /\ guardMetrics = Metrics(JsNull, Num(1), Num(1))
    /\ guardIn.tokenBounds = BoundsObject(JsUndefined, Num(0))
    /\ guardResult = GuardResult(FALSE, metrics_unavailable, JsNull)

\* C8: with a resolved market cap m and at least one bound set: min set and
\* m < min gives allowed=false, below_min; else max set and m > max gives
\* allowed=false, above_max; otherwise (m equal to min or max included)
\* allowed=true, in_range; and marketCap = m in all three cases.
C8_RangeDecision ==
    (guardPc = "returned" /\ ~BothUnset(guardIn.tokenBounds) /\ ~MarketCapUnresolved(guardMetrics)) =>
        LET m == guardMetrics.mcap.v
            min == guardIn.tokenBounds.marketCapMin
            max == guardIn.tokenBounds.marketCapMax
        IN  /\ guardResult.marketCap = Num(m)
            /\ IF BoundSet(min) /\ m < min.v
               THEN ~guardResult.allowed /\ guardResult.reason = below_min
               ELSE IF BoundSet(max) /\ m > max.v
               THEN ~guardResult.allowed /\ guardResult.reason = above_max
               ELSE guardResult.allowed /\ guardResult.reason = in_range

C8_Witness ==
    /\ guardPc = "returned"
    /\ guardIn.tokenBounds = BoundsObject(Num(2), Num(3))
    /\ guardMetrics.t = "object"
    /\ guardMetrics.mcap = Num(2)
    /\ guardResult = GuardResult(TRUE, in_range, Num(2))

\* C9: every result the guard returns has allowed = true exactly when its
\* reason is no_bounds_configured or in_range.
C9_AllowedIffReason ==
    guardPc = "returned" =>
        (guardResult.allowed <=> guardResult.reason \in {no_bounds_configured, in_range})

C9_Witness ==
    /\ guardPc = "returned"
    /\ guardResult.allowed = FALSE
    /\ guardResult.reason = above_max
    /\ guardIn.tokenBounds.marketCapMin = JsNull

\* C10: hasAutoTradeMarketCapBounds returns true exactly when at least one of
\* marketCapMin and marketCapMax is set (not null, not undefined; 0 is set),
\* and false for undefined bounds and for the empty object.
C10_HasBoundsIffSet ==
    hasBoundsResult # <<>> =>
        /\ hasBoundsResult[1] <=> ~BothUnset(guardIn.tokenBounds)
        /\ guardIn.tokenBounds \in {UndefinedBounds, EmptyBounds} => hasBoundsResult[1] = FALSE

C10_Witness ==
    /\ hasBoundsResult = <<TRUE>>
    /\ guardIn.tokenBounds = BoundsObject(Num(0), JsUndefined)

-----------------------------------------------------------------------------
(* Properties of the idempotency gate, checked under SpecGate.             *)

\* the answers of true to `key` whose expiry window [at, at + ttl) holds time t
WinnersAt(key, t) ==
    {i \in 1..Len(gateLog) :
        /\ gateLog[i].key = key
        /\ gateLog[i].result
        /\ gateLog[i].at <= t
        /\ t < gateLog[i].at + gateLog[i].ttl * 1000}

\* C4: whatever the order in which the store serves concurrent checkAndSet
\* calls of one key, the calls served while the key is absent and until it
\* expires get exactly one answer of true, and all the others get false.
C4_ExactlyOneWinner ==
    \A j \in 1..Len(gateLog) :
        /\ Cardinality(WinnersAt(gateLog[j].key, gateLog[j].at)) = 1
        /\ ~gateLog[j].result => j \notin WinnersAt(gateLog[j].key, gateLog[j].at)

C4_Witness ==
    /\ Len(gateLog) = 3
    /\ \A j \in 1..3 : gateLog[j].key = gateLog[1].key /\ gateLog[j].at = 0
    /\ gateLog[1].concurrent = 2
    /\ gateLog[1].result /\ ~gateLog[2].result /\ ~gateLog[3].result

\* the answers of true to the key of call j given before it and not yet expired
LiveBefore(j) ==
    {i \in 1..(j - 1) :
        /\ gateLog[i].key = gateLog[j].key
        /\ gateLog[i].result
        /\ gateLog[j].at < gateLog[i].at + gateLog[i].ttl * 1000}

\* C5: a checkAndSet of a key that was set and has not expired answers false
\* and leaves the key's expiry as the earlier call set it; a checkAndSet of a
\* key never set, or set and expired, answers true and sets the expiry to
\* now + ttl.
C5_TrueFalseThenTrueAfterExpiry ==
    \A j \in 1..Len(gateLog) :
        IF LiveBefore(j) # {}
        THEN /\ ~gateLog[j].result
             /\ \A i \in LiveBefore(j) :
                   gateLog[j].expiresAt = gateLog[i].at + gateLog[i].ttl * 1000
        ELSE /\ gateLog[j].result
             /\ gateLog[j].expiresAt = gateLog[j].at + gateLog[j].ttl * 1000

C5_Witness ==
    /\ Len(gateLog) = 3
    /\ \A j \in 1..3 : gateLog[j].key = gateLog[1].key
    /\ gateLog[1].result /\ gateLog[1].ttl = REDIS_TTL_IDEMPOTENCY /\ gateLog[1].at = 0
    /\ ~gateLog[2].result /\ gateLog[2].ttl = RECONCILE_LOCK_TTL_SECONDS /\ gateLog[2].at = 0
    /\ gateLog[2].expiresAt = REDIS_TTL_IDEMPOTENCY * 1000
    /\ gateLog[3].result /\ gateLog[3].at = REDIS_TTL_IDEMPOTENCY * 1000

-----------------------------------------------------------------------------
(* Properties of the trigger paths.                                        *)

\* the purchases a trigger path has invoked
PurchasesOf(path) == {x \in purchases : x.path = path}

\* time t lies in the window [lockedAt, lockedAt + ttl) of a key set at lockedAt
InWindow(t, lockedAt, ttlSeconds) == lockedAt <= t /\ t < lockedAt + ttlSeconds * 1000

\* two purchases are for one (agent, token) pair
SamePair(x, y) ==
    x.agentId = y.agentId /\ normalizeToken(x.tokenAddress) = normalizeToken(y.tokenAddress)

\* C1, as stated: of the three trigger paths fired for one agent and one
\* token, at most one invokes executePurchase for the pair within the gate
\* TTL window, so that two purchases of one pair by different paths are at
\* least a gate TTL apart.  Checked under Spec.
C1_Original ==
    \A x, y \in purchases :
        x.path # y.path /\ SamePair(x, y)
            => ~InWindow(y.at, x.at, REDIS_TTL_IDEMPOTENCY)

\* C1, amended: each gated path is held back by its own key only.  A
\* re-entry purchase was invoked by a delivery that set the key of its
\* (agentId, positionId), a reconciliation purchase by a cycle that set the
\* key of its (agentId, walletAddress, normalized token), each key setting
\* backs at most one purchase, and a config-save purchase consulted no gate.
\* Checked under Spec.
C1_EachPathGatedByOwnKey ==
    \A x \in purchases :
        /\ x.path = "reentry" =>
               /\ x.key = <<AUTO_TRADE_IDEMPOTENCY_PREFIX, x.agentId, x.positionId>>
               /\ x.lockedAt >= 0 /\ x.lockedAt <= x.at
        /\ x.path = "reconcile" =>
               /\ x.key = <<RECONCILE_IDEMPOTENCY_PREFIX, x.agentId, x.walletAddress>>
                              \o normalizeToken(x.tokenAddress)
               /\ x.lockedAt >= 0 /\ x.lockedAt <= x.at
        /\ x.path = "save" => x.key = <<>> /\ x.lockedAt = -1
        /\ \A y \in purchases :
               x.path # "save" /\ y.key = x.key /\ y.lockedAt = x.lockedAt => y = x

\* the three paths have each purchased one token for one agent at one instant
C1_Witness ==
    \E x \in PurchasesOf("reentry"), y \in PurchasesOf("reconcile"), z \in PurchasesOf("save") :
        /\ SamePair(x, y) /\ SamePair(y, z)
        /\ x.at = y.at /\ y.at = z.at
        /\ x.lockedAt = x.at /\ y.lockedAt = y.at

\* C2: for every reconcile key, among overlapping cycles sharing the gate
\* store, at most one executePurchase is invoked between a successful
\* checkAndSet of the key and the expiry that call set.  Checked under
\* SpecReconcile.
C2_AtMostOnePurchasePerWindow ==
    \A x, y \in PurchasesOf("reconcile") :
        /\ x.key = y.key
        /\ InWindow(y.at, y.lockedAt, RECONCILE_LOCK_TTL_SECONDS)
        /\ InWindow(x.at, y.lockedAt, RECONCILE_LOCK_TTL_SECONDS)
        => x = y

\* C3: of the deliveries of one (agentId, positionId) whose checkAndSet is
\* served within the gate TTL of one another at most one invokes
\* executePurchase, and a delivery that found the key set has ended as a
\* duplicate without loading the config and has purchased nothing.
\* Checked under SpecReentry.
C3_AtMostOncePerKeyWindow ==
    /\ \A x, y \in PurchasesOf("reentry") :
           x.key = y.key /\ InWindow(y.lockedAt, x.lockedAt, REDIS_TTL_IDEMPOTENCY) => x = y
    /\ \A i \in DOMAIN procs :
           procs[i].kind = "reentry" /\ procs[i].gate = "false" =>
               /\ procs[i].pc = "done" /\ procs[i].outcome = "duplicate"
               /\ ~procs[i].loaded
               /\ \A x \in purchases : x.by # i

\* one delivery has purchased and a second delivery of the same key, served
\* before the key expired, has ended as a duplicate
C3_Witness ==
    \E x \in PurchasesOf("reentry"), j \in DOMAIN procs :
        /\ j # x.by
        /\ procs[j].outcome = "duplicate"
        /\ procs[j].key = x.key
        /\ x.key = reentryKey("agent-1", "pos-1")

\* a delivery that is past its checkAndSet holds the answer true
KeySetBeforeConfigLoad ==
    \A i \in DOMAIN procs :
        procs[i].kind = "reentry" =>
            /\ procs[i].pc \in {"loadAgentConfig", "guard", "executePurchase"} =>
                   procs[i].gate = "true"
            /\ procs[i].loaded => procs[i].gate = "true"

\* the step that lets a delivery on to the config load leaves its key set
KeySetOnTrue ==
    \A i \in DOMAIN procs :
        /\ procs[i].kind = "reentry" /\ procs[i].pc = "checkAndSet"
        /\ procs'[i].pc = "loadAgentConfig"
        => /\ ~procs'[i].loaded
           /\ keyPresent(gateStore', procs[i].key, now')
           /\ gateStore'[procs[i].key] = now + REDIS_TTL_IDEMPOTENCY * 1000

\* no step takes a key out of the store, or changes its expiry, before the
\* key expires
KeyNeverCleared ==
    \A key \in DOMAIN gateStore :
        gateStore[key] > now' => key \in DOMAIN gateStore' /\ gateStore'[key] = gateStore[key]

\* a delivery whose checkAndSet is served while the key is present ends
\* there as a duplicate, and no purchase is made
LaterDeliveryEnds ==
    \A i \in DOMAIN procs :
        /\ procs[i].kind = "reentry" /\ procs[i].pc = "checkAndSet"
        /\ procs'[i] # procs[i]
        /\ keyPresent(gateStore, procs[i].key, now)
        => /\ procs'[i].pc = "done" /\ ~procs'[i].loaded
           /\ procs'[i].gate # "throws" => procs'[i].outcome = "duplicate"
           /\ purchases' = purchases

\* C40: handlePositionClosed sets its gate key before it loads the config
\* and no step of it clears the key: from the checkAndSet that answered true
\* until the key expires, every delivery of the same (agentId, positionId)
\* ends as a duplicate without a purchase, whether the first delivery
\* purchased or stopped before (config load failure, guard denial, failed
\* purchase).  Checked under SpecReentry.
C40_GateKeyKeptAfterFailure ==
    []KeySetBeforeConfigLoad /\ [][KeySetOnTrue /\ KeyNeverCleared /\ LaterDeliveryEnds]_vars

\* the first delivery of pos-1 was denied by the guard and purchased
\* nothing; the second, served before the key expired, ended as a duplicate
C40_Witness ==
    /\ procs[1].kind = "reentry" /\ procs[1].outcome = "guard_denied"
    /\ procs[1].gate = "true" /\ procs[1].key = reentryKey("agent-1", "pos-1")
    /\ procs[2].kind = "reentry" /\ procs[2].outcome = "duplicate"
    /\ procs[2].key = procs[1].key
    /\ keyPresent(gateStore, procs[1].key, now)
    /\ purchases = {}

\* executePurchase has been called by a cycle for agent-1's enabled token
RetryPurchased ==
    \E x \in PurchasesOf("reconcile") :
        x.agentId = "agent-1" /\ x.tokenAddress = normalizeToken(TokABounded.address)

\* C34: what a cycle abandons is retried by a later tick: while the token
\* stays enabled for an active agent with auto-trade on and a wallet, has no
\* open position and is allowed by the guard, and once the collaborators have
\* stopped failing, some cycle started by the timer calls executePurchase for
\* the token.  Checked under SpecRetry, whose fairness is that of the timer
\* and of the event loop.
C34_RetriedByLaterTick == <>RetryPurchased

\* the first cycle was lost to a rejected getActiveAgentIds and a later
\* cycle made the purchase
C34_Witness ==
    /\ procs[1].kind = "cycle" /\ procs[1].outcome = "cycle_failed"
    /\ \E x \in purchases : x.path = "reconcile" /\ x.by > 1 /\ x.agentId = "agent-1"

\* C11: the config-save immediate-buy applies the market-cap guard before it
\* purchases, so that a token that has bounds is purchased only after a guard
\* evaluation that found its market cap in range, and never when the guard
\* denies.  Checked under Spec.
C11_SaveAppliesGuard ==
    \A x \in PurchasesOf("save") :
        hasAutoTradeMarketCapBounds(x.bounds) => x.guard \in AllowedReasons

\* the reasons with which the guard denies
DeniedReasons == {metrics_unavailable, below_min, above_max}

\* the purchases invocation i has made under the key setting it holds
PurchasesUnder(i) ==
    {x \in purchases : x.by = i /\ x.key = procs[i].key /\ x.lockedAt = procs[i].lockedAt}

\* C12: in the re-entry handler and in the reconciliation cycle a token the
\* guard has denied is not purchased: every purchase of the two paths follows
\* a guard result that allowed, a delivery the guard denied has ended without
\* a purchase, and a cycle the guard denied has left the token without one.
\* Checked under Spec.
C12_DeniedNeverPurchases ==
    /\ \A x \in PurchasesOf("reentry") \cup PurchasesOf("reconcile") : x.guard \in AllowedReasons
    /\ \A i \in DOMAIN procs :
           procs[i].guard \in DeniedReasons =>
               IF procs[i].kind = "reentry"
               THEN /\ procs[i].pc = "done" /\ procs[i].outcome = "guard_denied"
                    /\ \A x \in purchases : x.by # i
               ELSE /\ procs[i].kind = "cycle" /\ procs[i].pc \in {"tokenDone", "agentDone"}
                    /\ PurchasesUnder(i) = {}

\* the guard has denied a delivery and a cycle's token, each for a token with
\* bounds, and neither has purchased
C12_Witness ==
    \E i, j \in DOMAIN procs :
        /\ procs[i].kind = "reentry" /\ procs[i].guard = above_max
        /\ procs[j].kind = "cycle" /\ procs[j].guard = metrics_unavailable
        /\ procs[j].gate = "true" /\ procs[j].position = "null"
        /\ purchases = {}

\* the deliveries of events whose source is wallet_reset
WalletResetDeliveries ==
    {i \in DOMAIN procs : procs[i].kind = "reentry" /\ procs[i].source = "wallet_reset"}

\* a wallet_reset delivery has returned with no gate call, no config load
\* and no purchase behind it
WalletResetIgnored ==
    \A i \in WalletResetDeliveries :
        /\ procs[i].pc = "done" /\ procs[i].outcome = "wallet_reset"
        /\ procs[i].gate = "" /\ procs[i].lockedAt = -1 /\ ~procs[i].loaded
        /\ \A x \in purchases : x.by # i

\* the step that delivers a wallet_reset event leaves the gate store and the
\* purchases as they were
WalletResetStep ==
    (\E i \in DOMAIN procs : procs[i].pc = "idle" /\ procs'[i].source = "wallet_reset")
        => gateStore' = gateStore /\ purchases' = purchases

\* C13: a position_closed event whose source is wallet_reset makes the
\* re-entry handler return at once: zero checkAndSet calls, zero
\* executePurchase calls, the gate store unchanged.  Checked under SpecReentry.
C13_WalletResetDoesNothing == []WalletResetIgnored /\ [][WalletResetStep]_vars

\* a wallet_reset event of pos-1 was delivered and ignored, and a later
\* trading event of pos-1 still found its key absent
C13_Witness ==
    \E i, j \in DOMAIN procs :
        /\ i < j
        /\ i \in WalletResetDeliveries /\ procs[i].outcome = "wallet_reset"
        /\ procs[j].key = reentryKey("agent-1", "pos-1") /\ procs[j].gate = "true"
        /\ procs[j].lockedAt = 0
        /\ DOMAIN gateStore = {reentryKey("agent-1", "pos-1")}

\* the outcomes with which handlePositionClosed returns to boundHandler
HandledOutcomes ==
    {"wallet_reset", "duplicate", "disabled", "no_token", "guard_denied",
     "executed", "guardrail", "error"}

\* C14: whatever a collaborator of the re-entry handler does (the gate, the
\* config load, the guard or the executor throws, the signal is not created),
\* the delivery ends with the error logged and nothing thrown at the emitter,
\* and the next event can still be delivered.  Checked under SpecReentry.
C14_NeverPropagates ==
    /\ \A i \in DOMAIN procs :
           /\ procs[i].outcome # "propagated"
           /\ procs[i].pc = "done" => procs[i].outcome \in HandledOutcomes
           /\ (procs[i].gate = "throws" \/ procs[i].guard = "throws") =>
                  procs[i].pc = "done" /\ procs[i].outcome = "error"
    /\ Fresh("reentry") # {} => ENABLED emitPositionClosed

\* the guard threw in the first delivery, the executor in the second after a
\* failed signal creation, and both deliveries ended with the error logged
C14_Witness ==
    /\ procs[1].outcome = "error" /\ procs[1].guard = "throws"
    /\ procs[2].outcome = "error" /\ procs[2].guard \in AllowedReasons
    /\ \E x \in purchases : x.by = 2 /\ x.signal = JsNull

\* the agent's auto-trade is on and its token list holds an enabled token
\* whose address is tokenAddress up to surrounding blanks and letter case
EnabledMatch(autoTrade, tokenAddress) ==
    /\ autoTrade.t = "object" /\ autoTrade.enabled
    /\ \E k \in 1..Len(autoTrade.tokens) :
           /\ autoTrade.tokens[k].enabled
           /\ toLowerCase(trim(autoTrade.tokens[k].address)) = toLowerCase(trim(tokenAddress))

\* C15: the re-entry handler purchases only for an agent whose auto-trade is
\* enabled and whose token list holds an enabled token matching the event's
\* token address case-insensitively after trimming; a delivery that finds
\* auto-trade off or no such token stops after the config load, before the
\* guard, without a purchase.  Checked under SpecReentry, where no config
\* changes.
C15_PurchaseOnlyIfEnabledMatch ==
    /\ \A x \in PurchasesOf("reentry") : EnabledMatch(config[x.agentId], x.tokenAddress)
    /\ \A i \in DOMAIN procs :
           procs[i].kind = "reentry" /\ procs[i].outcome \in {"disabled", "no_token"} =>
               /\ procs[i].loaded /\ procs[i].guard = ""
               /\ \A x \in purchases : x.by # i
               /\ ~EnabledMatch(config["agent-1"], positionToken(procs[i].key[3]))

\* the event's "TA" matched the enabled token " Ta" and was purchased, and
\* the event's "tB " matched only the disabled "Tb " and was not
C15_Witness ==
    /\ config["agent-1"] = AutoTrade(TRUE, <<TokA, TokBOff>>)
    /\ \E x \in PurchasesOf("reentry") : x.tokenAddress = <<"T", "A">>
    /\ \E i \in DOMAIN procs :
           procs[i].outcome = "no_token" /\ procs[i].key = reentryKey("agent-1", "pos-2")

\* C16: a delivery that the guard allowed has invoked executePurchase when
\* it ends, whether createAutoTradeSignal returned an id or null; the
\* purchase carries the id if there is one and no signal id (undefined) if
\* signal creation failed.  Checked under SpecReentry.
C16_SignalFailureDoesNotBlock ==
    /\ \A i \in DOMAIN procs :
           procs[i].kind = "reentry" /\ procs[i].pc = "done" /\ procs[i].guard \in AllowedReasons
               => \E x \in PurchasesOf("reentry") : x.by = i
    /\ \A x \in PurchasesOf("reentry") :
           /\ x.signal \in SignalIds
           /\ x.signalId = (IF x.signal = JsNull THEN JsUndefined ELSE x.signal)

\* one delivery has purchased with a signal id and another, whose signal
\* creation failed, without one
C16_Witness ==
    \E x, y \in PurchasesOf("reentry") :
        /\ x.signal = Num(1) /\ x.signalId = Num(1)
        /\ y.signal = JsNull /\ y.signalId = JsUndefined
        /\ procs[y.by].outcome = "executed"

\* the cycles that have just left reconcileToken for the token in hand
CyclesPastToken ==
    {i \in DOMAIN procs : procs[i].kind = "cycle" /\ procs[i].pc \in {"tokenDone", "agentDone"}}

\* C17: when a cycle leaves an enabled token of an agent with a wallet for
\* which the gate answered true, findFirst found no position and the guard
\* allowed, it has invoked executePurchase for it exactly once, with the
\* token address trimmed and lower-cased and the agent's wallet address; a
\* cycle still about to call the executor has not purchased the token yet.
\* Checked under SpecReconcile.
C17_ExactlyOnePurchasePerMissingToken ==
    /\ \A i \in CyclesPastToken :
           procs[i].gate = "true" /\ procs[i].position = "null" /\ procs[i].guard \in AllowedReasons
               => /\ Cardinality(PurchasesUnder(i)) = 1
                  /\ \A x \in PurchasesUnder(i) :
                         /\ x.path = "reconcile" /\ x.agentId = procs[i].agentId
                         /\ x.walletAddress = procs[i].walletAddress
                         /\ x.walletAddress = WalletAddress
                         /\ x.tokenAddress = toLowerCase(trim(procs[i].token.address))
    /\ \A i \in At("cycle", "executePurchase") : PurchasesUnder(i) = {}

\* a cycle has purchased agent-2's enabled token " Ta" as "ta" for wallet-1
C17_Witness ==
    \E i \in CyclesPastToken :
        /\ procs[i].agentId = "agent-2" /\ procs[i].token = TokA
        /\ procs[i].gate = "true" /\ procs[i].position = "null"
        /\ procs[i].guard = no_bounds_configured
        /\ \E x \in PurchasesUnder(i) :
               x.tokenAddress = <<"t", "a">> /\ x.walletAddress = "wallet-1"

\* C18: when findFirst reports an active position for the agent, the wallet
\* and the token, the cycle leaves the token with the guard not evaluated and
\* no executePurchase call for it; every reconciliation purchase follows a
\* lookup that found no position.  Checked under SpecReconcile.
C18_ActivePositionSkipsToken ==
    /\ \A i \in DOMAIN procs :
           procs[i].kind = "cycle" /\ procs[i].position = "found" =>
               /\ i \in CyclesPastToken
               /\ procs[i].gate = "true" /\ procs[i].guard = ""
               /\ PurchasesUnder(i) = {}
    /\ \A x \in PurchasesOf("reconcile") : x.position = "null"

\* a cycle has left agent-1's bounded token "TA" because a position exists,
\* holding the key, with nothing purchased
C18_Witness ==
    \E i \in At("cycle", "tokenDone") :
        /\ procs[i].position = "found" /\ procs[i].token = TokABounded
        /\ procs[i].key = reconcileKey("agent-1", "wallet-1", <<"T", "A">>)
        /\ keyPresent(gateStore, procs[i].key, now)
        /\ purchases = {}

\* a cycle is over only when the last agent of its list has been processed,
\* and an agent's error is held at the return of reconcileAgent
NoAgentLeftBehind ==
    \A i \in DOMAIN procs :
        procs[i].kind = "cycle" =>
            /\ procs[i].pc = "done" => Len(procs[i].agentsLeft) <= 1
            /\ procs[i].failed => procs[i].pc = "agentDone"

\* the step a cycle takes after an agent's error: on to the next listed
\* agent's config load, or to the regular end of the cycle
AfterAgentError ==
    \A i \in DOMAIN procs :
        procs[i].kind = "cycle" /\ procs[i].failed /\ procs'[i] # procs[i] =>
            IF Len(procs[i].agentsLeft) > 1
            THEN /\ procs'[i].pc = "loadAgentConfig"
                 /\ procs'[i].agentId = procs[i].agentsLeft[2]
                 /\ procs'[i].agentsLeft = Tail(procs[i].agentsLeft)
            ELSE procs'[i].pc = "done" /\ procs'[i].outcome = "cycle_done"

\* C19: an error while a cycle processes one agent (the config load, the
\* trading-mode or wallet lookup, or anything thrown in its token loop) is
\* caught at that agent: the cycle goes on to the next agent of the list and
\* ends only after the last one.  Checked under SpecReconcile.
C19_AgentErrorDoesNotAbortCycle == []NoAgentLeftBehind /\ [][AfterAgentError]_vars

\* agent-2's position lookup has thrown while agent-1 is still to come
C19_Witness ==
    \E i \in At("cycle", "agentDone") :
        /\ procs[i].failed /\ procs[i].position = "throws"
        /\ procs[i].agentsLeft = <<"agent-2", "agent-1">>

\* C20: a failure of the gate call, the position lookup or the guard for
\* one enabled token does not abort the agent's other tokens, so that a
\* cycle never leaves an agent after such a failure while enabled tokens of
\* its loop are still unprocessed.  Checked under SpecReconcile.
C20_TokenErrorDoesNotAbortTokens ==
    \A i \in At("cycle", "agentDone") :
        procs[i].gate = "throws" \/ procs[i].position = "throws" \/ procs[i].guard = "throws"
            => Len(procs[i].tokensLeft) <= 1

\* how executePurchase fails: with an expected skip code, or otherwise
ExecutorFailures == {"guardrail", "failed"}

\* a cycle whose executePurchase call failed is back in the token loop of
\* reconcileAgent, or at its regular return, with nothing thrown
FailureAbsorbed ==
    \A i \in DOMAIN procs :
        procs[i].kind = "cycle" /\ procs[i].executor \in ExecutorFailures =>
            procs[i].pc \in {"tokenDone", "agentDone"} /\ ~procs[i].failed

\* the step a cycle takes after a failed executePurchase call: the next
\* enabled token's gate call, the regular return of reconcileAgent, the next
\* agent's config load, or the regular end of the cycle
AfterExecutorFailure ==
    \A i \in DOMAIN procs :
        procs[i].kind = "cycle" /\ procs[i].executor \in ExecutorFailures
                                /\ procs'[i] # procs[i] =>
            IF procs[i].pc = "tokenDone"
            THEN IF Len(procs[i].tokensLeft) > 1
                 THEN /\ procs'[i].pc = "checkAndSet"
                      /\ procs'[i].token = procs[i].tokensLeft[2]
                      /\ procs'[i].agentId = procs[i].agentId
                 ELSE procs'[i].pc = "agentDone" /\ ~procs'[i].failed
            ELSE IF Len(procs[i].agentsLeft) > 1
                 THEN /\ procs'[i].pc = "loadAgentConfig"
                      /\ procs'[i].agentId = procs[i].agentsLeft[2]
                 ELSE procs'[i].pc = "done" /\ procs'[i].outcome = "cycle_done"

\* C21: when executePurchase fails during reconciliation, with an expected
\* skip code or with any other error, reconcileToken returns normally: the
\* cycle goes on to the next enabled token, then to the next agent, and ends
\* regularly, never with an error leaving runCycle.  Checked under
\* SpecExecutor.
C21_PurchaseFailureAbsorbed == []FailureAbsorbed /\ [][AfterExecutorFailure]_vars

\* the purchase of agent-2's first token has failed with an unexpected
\* error while its second token and agent-1 are still to come
C21_Witness ==
    \E i \in At("cycle", "tokenDone") :
        /\ procs[i].executor = "failed" /\ procs[i].token = TokABounded
        /\ procs[i].tokensLeft = <<TokABounded, TokB>>
        /\ procs[i].agentsLeft = <<"agent-2", "agent-1">>
        /\ \E x \in PurchasesUnder(i) : x.tokenAddress = <<"t", "a">>

\* the cycles that ended in the .catch of the timer callback
FailedCycles == {i \in DOMAIN procs : procs[i].kind = "cycle" /\ procs[i].outcome = "cycle_failed"}

\* a failed cycle has left nothing behind but its outcome, and the handle
\* kept in this.interval is that of an armed timer
FailedCycleLeavesNothing ==
    /\ \A i \in FailedCycles :
           procs[i] = [NewProc("cycle", "done") EXCEPT !.outcome = "cycle_failed"]
    /\ interval # NoTimer => interval \in DOMAIN timers
    /\ \A i \in Fresh("cycle") :
           (\E h \in DOMAIN timers : timers[h] <= now) => ENABLED intervalFires

\* the step in which a cycle fails at the top level changes neither the
\* timer nor the purchases nor any other cycle, and a cycle that starts,
\* whatever failed before it, starts from the beginning of runCycle
FailedCycleStep ==
    \A i \in DOMAIN procs :
        /\ (i \in FailedCycles' /\ i \notin FailedCycles) =>
               /\ interval' = interval /\ timers' = timers
               /\ purchases' = purchases /\ gateStore' = gateStore
               /\ \A j \in DOMAIN procs \ {i} : procs'[j] = procs[j]
        /\ (procs[i].kind = "cycle" /\ procs[i].pc = "idle" /\ procs'[i].pc # "idle") =>
               procs'[i] = NewProc("cycle", "getActiveAgentIds")

\* C22: a cycle whose getActiveAgentIds call rejects ends in the .catch of
\* the timer callback: the timer stays armed, a timer that is due starts a
\* cycle from the beginning of runCycle, and nothing of the failed cycle is
\* kept for it.  Checked under SpecScheduler.
C22_FailedCycleDoesNotStopScheduler == []FailedCycleLeavesNothing /\ [][FailedCycleStep]_vars

\* the first cycle failed at the top level, and the tick that followed one
\* interval later has started the second cycle, the timer still armed
C22_Witness ==
    /\ 1 \in FailedCycles
    /\ procs[2] = NewProc("cycle", "getActiveAgentIds")
    /\ interval # NoTimer /\ interval \in DOMAIN timers
    /\ now = 2 * RECONCILE_INTERVAL_MS

\* cycle i is skipped by the gate in this step: checkAndSet answers false
GateSkips(i) ==
    /\ procs[i].kind = "cycle" /\ procs[i].pc = "checkAndSet"
    /\ procs'[i].pc # "checkAndSet" /\ procs'[i].gate = "false"

\* the cycle started by the tick before that of cycle i got true for the key
SetByPreviousCycle(i, key) ==
    /\ i - 1 \in DOMAIN procs
    /\ procs[i - 1].kind = "cycle" /\ procs[i - 1].key = key /\ procs[i - 1].gate = "true"

PreviousLockExpired ==
    \A i \in DOMAIN procs : GateSkips(i) => ~SetByPreviousCycle(i, procs[i].key)

\* C33 as stated: a reconcile key set for a token by the cycle of one tick
\* has expired when the cycle of the following tick of the same scheduler
\* reaches the token, so that cycle is not skipped by it.  Checked under
\* SpecScheduler.
C33_LockExpiredByNextTick == [][PreviousLockExpired]_vars

\* when the key was set, counted back from its expiry
SetAt(key) == gateStore[key] - RECONCILE_LOCK_TTL_SECONDS * 1000

\* no reconcile key lives longer than its TTL, which is less than an interval
LockShorterThanInterval ==
    /\ RECONCILE_LOCK_TTL_SECONDS * 1000 < RECONCILE_INTERVAL_MS
    /\ \A key \in DOMAIN gateStore :
           key[1] = RECONCILE_IDEMPOTENCY_PREFIX =>
               gateStore[key] <= now + RECONCILE_LOCK_TTL_SECONDS * 1000

\* a cycle is skipped only by a key set less than an interval ago
SkippedWithinInterval ==
    \A i \in DOMAIN procs :
        GateSkips(i) =>
            /\ procs[i].key \in DOMAIN gateStore
            /\ SetAt(procs[i].key) <= now /\ now < gateStore[procs[i].key]
            /\ now - SetAt(procs[i].key) < RECONCILE_INTERVAL_MS

\* C33 as the code has it: a reconcile key expires RECONCILE_LOCK_TTL_SECONDS
\* after it was set, which is less than one interval, so a cycle is skipped
\* only by a key set less than an interval before it reaches the token; a
\* key that a cycle set more than interval - TTL after its tick can still
\* skip the cycle of the following tick.  Checked under SpecScheduler.
C33_LockShorterThanInterval == []LockShorterThanInterval /\ [][SkippedWithinInterval]_vars

\* the first cycle, started at the first tick, set the key half an interval
\* later; the second cycle, started at the following tick, was skipped by it
C33_Witness ==
    /\ now = 2 * RECONCILE_INTERVAL_MS
    /\ procs[1].kind = "cycle" /\ procs[1].gate = "true"
    /\ procs[2].kind = "cycle" /\ procs[2].gate = "false" /\ procs[2].key = procs[1].key
    /\ procs[2].key \in DOMAIN gateStore
    /\ gateStore[procs[2].key] =
           RECONCILE_INTERVAL_MS + SchedTickMs + RECONCILE_LOCK_TTL_SECONDS * 1000

\* the armed timers are the one this.interval holds, if any
AtMostOneTimer ==
    /\ Cardinality(DOMAIN timers) <= 1
    /\ interval = NoTimer => timers = <<>>
    /\ interval # NoTimer => DOMAIN timers = {interval}

\* a timer is armed only by an initialize that found this.interval unset
ArmsOnlyWhenUnset ==
    timerSeq' # timerSeq =>
        /\ interval = NoTimer /\ timers = <<>>
        /\ interval' # NoTimer /\ DOMAIN timers' = {interval'}
        /\ timers'[interval'] = now + RECONCILE_INTERVAL_MS

\* with this.interval unset, initialize arms a timer
ArmsWhenUnset ==
    interval = NoTimer /\ timerSeq < MaxTimers => ENABLED (initialize /\ interval' # NoTimer)

\* C39: after any sequence of initialize and shutdown calls at most one
\* timer is armed, the one this.interval holds; initialize arms a timer
\* only when this.interval is unset, so a second initialize without a
\* shutdown in between arms none, and with this.interval unset (at the
\* start and after a shutdown) initialize arms one.  Checked under
\* SpecScheduler.
C39_InitializeIdempotent ==
    [](AtMostOneTimer /\ ArmsWhenUnset) /\ [][ArmsOnlyWhenUnset]_vars

\* initialize, shutdown and initialize again: the second timer is the only
\* one armed
C39_Witness ==
    /\ timerSeq = 2 /\ interval = 2
    /\ DOMAIN timers = {2}

\* an invocation of the re-entry handler or a reconciliation cycle starts
Starts(kind) ==
    \E i \in DOMAIN procs :
        procs[i].kind = kind /\ procs[i].pc = "idle" /\ procs'[i].pc # "idle"

NothingStartsAfterShutdown ==
    /\ interval = NoTimer => ~Starts("cycle")
    /\ reentryShutDown => ~Starts("reentry")

\* C32: after shutdown() of the reconciliation manager no reconciliation
\* cycle starts, and after shutdownAutoTradeReentryManager() no
\* position_closed event starts the re-entry handler, whatever initialize
\* and shutdown calls came before.  Checked under SpecLifecycle.
C32_NothingStartsAfterShutdown == [][NothingStartsAfterShutdown]_vars

\* C23: the provider is called at most once per token per TTL window, also
\* when several fetchTokenMetrics calls for the same token are in flight at
\* once: no two requests for one token are sent less than
\* METRICS_CACHE_TTL_MS apart.  Checked under SpecMetrics.
C23_OneProviderCallPerWindow ==
    \A c1, c2 \in providerCalls :
        c1 # c2 /\ c1.tokenAddress = c2.tokenAddress /\ c1.at <= c2.at
            => c2.at - c1.at >= METRICS_CACHE_TTL_MS

\* the step in which a call returns from a failed provider request stores
\* a null entry that expires one TTL from now, and returns null
FailedFetchStep ==
    \A i \in DOMAIN fetches :
        fetches[i].pc = "awaitFetch" /\ fetches'[i].pc = "done"
                                     /\ fetches'[i].outcome \in ProviderFailures =>
            /\ fetches'[i].result = NoMetrics
            /\ fetches[i].tokenAddress \in DOMAIN metricsCache'
            /\ metricsCache'[fetches[i].tokenAddress] =
                   [metrics |-> NoMetrics, expiresAt |-> now + METRICS_CACHE_TTL_MS]

\* a call that finds a null entry before its expiry returns null at once
\* and sends no request
NullEntryServed ==
    \A i \in DOMAIN fetches :
        fetches[i].pc = "idle" /\ fetches'[i].pc # "idle" =>
            LET tokenAddress == fetches'[i].tokenAddress IN
            (/\ tokenAddress \in DOMAIN metricsCache
             /\ metricsCache[tokenAddress].metrics = NoMetrics
             /\ now < metricsCache[tokenAddress].expiresAt)
                => /\ fetches'[i].pc = "done" /\ fetches'[i].result = NoMetrics
                   /\ providerCalls' = providerCalls
                   /\ metricsCache' = metricsCache

\* C24: a provider request that fails (fetch rejects, the timeout fires, a
\* non-2xx response, a body that is not JSON, not an array, empty, or whose
\* first element is null) leaves the entry {null, now + TTL} in the cache,
\* and a call for the token that finds this entry before its expiry
\* returns null without a provider request.  Checked under SpecMetrics.
C24_FailureCachedAsNull == [][FailedFetchStep /\ NullEntryServed]_vars

\* the first call for "ta" timed out, the second, made before the null
\* entry expired, returned null from the cache: one request was sent
C24_Witness ==
    /\ fetches[1] = Returned([NewFetch EXCEPT !.tokenAddress = <<"t", "a">>], "timeout", NoMetrics)
    /\ fetches[2] = Returned([NewFetch EXCEPT !.tokenAddress = <<"t", "a">>], "hit", NoMetrics)
    /\ Cardinality(providerCalls) = 1
    /\ metricsCache[<<"t", "a">>].metrics = NoMetrics
    /\ now < metricsCache[<<"t", "a">>].expiresAt

\* call i of fetchTokenMetrics is made in this step, for a token that has a
\* cache entry
StartsCached(i) ==
    /\ fetches[i].pc = "idle" /\ fetches'[i].pc # "idle"
    /\ fetches'[i].tokenAddress \in DOMAIN metricsCache

\* before the expiry the cached value is returned and nothing else happens
CachedServed ==
    \A i \in DOMAIN fetches :
        StartsCached(i) /\ now < metricsCache[fetches'[i].tokenAddress].expiresAt =>
            /\ fetches'[i].pc = "done"
            /\ fetches'[i].result = metricsCache[fetches'[i].tokenAddress].metrics
            /\ providerCalls' = providerCalls
            /\ metricsCache' = metricsCache

\* from the expiry on the call sends a request to the provider
ExpiredRefetched ==
    \A i \in DOMAIN fetches :
        StartsCached(i) /\ now >= metricsCache[fetches'[i].tokenAddress].expiresAt =>
            /\ fetches'[i].pc = "awaitFetch"
            /\ providerCalls' = providerCalls \cup
                   {[by |-> i, tokenAddress |-> fetches'[i].tokenAddress, at |-> now]}
            /\ providerCalls' # providerCalls

\* the call that sent a request leaves what it returns in the cache, with a
\* new expiry
EntryReplaced ==
    \A i \in DOMAIN fetches :
        fetches[i].pc = "awaitFetch" /\ fetches'[i].pc = "done" =>
            metricsCache'[fetches[i].tokenAddress] =
                [metrics |-> fetches'[i].result, expiresAt |-> now + METRICS_CACHE_TTL_MS]

\* C38: a fetchTokenMetrics call for a token with a cache entry returns the
\* cached value as it is, also a cached null, without a provider request
\* and without touching the cache while now < expiresAt; a call made when
\* now >= expiresAt sends a provider request, and when that call returns
\* the entry holds its result and expires one TTL later.  Checked under
\* SpecMetrics.
C38_CacheServedUntilExpiry == [][CachedServed /\ ExpiredRefetched /\ EntryReplaced]_vars

\* "ta" was fetched at time 0 and failed, a second call before the expiry
\* was served the null, and a third call at the expiry sent a second
\* request, whose metrics are now cached for another TTL
C38_Witness ==
    /\ fetches[1] = Returned([NewFetch EXCEPT !.tokenAddress = <<"t", "a">>], "non2xx", NoMetrics)
    /\ fetches[2] = Returned([NewFetch EXCEPT !.tokenAddress = <<"t", "a">>], "hit", NoMetrics)
    /\ fetches[3].pc = "done" /\ fetches[3].outcome = "item"
    /\ fetches[3].tokenAddress = <<"t", "a">>
    /\ providerCalls = {[by |-> 1, tokenAddress |-> <<"t", "a">>, at |-> 0],
                        [by |-> 3, tokenAddress |-> <<"t", "a">>, at |-> METRICS_CACHE_TTL_MS]}
    /\ metricsCache[<<"t", "a">>] =
           [metrics |-> fetches[3].result, expiresAt |-> 2 * METRICS_CACHE_TTL_MS]
    /\ fetches[3].result # NoMetrics

-----------------------------------------------------------------------------
(* Properties of the position cache                                        *)

\* call i of the method returns in this step
Completes(i, op) == ops[i].op = op /\ ops[i].pc # "done" /\ ops'[i].pc = "done"

\* call i of the method takes a step
Steps(i, op) == ops'[i].op = op /\ ops'[i] # ops[i]

HasPayload(strings, id) == POSITION(id) \in DOMAIN strings
WellFormed(strings, id) ==
    /\ HasPayload(strings, id)
    /\ strings[POSITION(id)].kind = "json"
    /\ strings[POSITION(id)].value.t = "object"
Malformed(strings, id) == HasPayload(strings, id) /\ ~WellFormed(strings, id)
StoredPosition(strings, id) == strings[POSITION(id)].value

\* the index keys under which the set holds the id
IndexKeysOf(sets, id) == {k \in DOMAIN sets : id \in sets[k]}

SetPostcondition ==
    \A i \in DOMAIN ops :
        Completes(i, "setPosition") =>
            LET record == ops[i].position
                got == getPositionResult(redisStrings', record.id)
            IN
            /\ got.t = "object"
            /\ got.id = record.id /\ got.agentId = record.agentId
            /\ got.walletAddress = record.walletAddress
            /\ got.tokenAddress = record.tokenAddress
            /\ record.id \in smembers(redisSets', AGENT_POSITIONS(record.agentId))
            /\ record.id \in smembers(redisSets', TOKEN_POSITIONS(toLowerCase(record.tokenAddress)))
            /\ \A variant \in TokenLookups :
                   toLowerCase(variant) = toLowerCase(record.tokenAddress)
                       => record.id \in tokenPositionIds(redisSets', variant)

\* C25: when setPosition(record) returns, getPosition(record.id) would
\* return a position with the same id, agentId, walletAddress and
\* tokenAddress, record.id is in the agent index of record.agentId and in
\* the token index of the lower-cased record.tokenAddress, and
\* getTokenPositionIds finds it under every spelling of the address that
\* differs only in case.  Checked under SpecPositions.
C25_SetThenGetAndIndexes == [][SetPostcondition]_vars

\* setPosition of p1 (token "Ta") has returned on a store that did not hold
\* it: the payload reads back with its date revived and the id is found
\* under "TA"
C25_Witness ==
    \E i \in DOMAIN ops :
        /\ ops[i].op = "setPosition" /\ ops[i].pc = "done" /\ ops[i].id = "p1"
        /\ ~HasPayload(ops[i].before.strings, "p1")
        /\ IndexKeysOf(ops[i].before.sets, "p1") = {}
        /\ getPositionResult(redisStrings, "p1").createdAt = DateValue(1)
        /\ getPositionResult(redisStrings, "p1").tokenAddress = <<"T", "a">>
        /\ "p1" \in tokenPositionIds(redisSets, <<"T", "A">>)
        /\ IndexKeysOf(redisSets, "p1") = {AGENT_POSITIONS("agent-1"), TOKEN_POSITIONS(<<"t", "a">>)}

NoEmptyIndex == \A k \in DOMAIN redisSets : redisSets[k] # {}

DeletePostcondition ==
    \A i \in DOMAIN ops :
        Completes(i, "deletePosition") =>
            LET agentKey == AGENT_POSITIONS(ops[i].agentId)
                tokenKey == TOKEN_POSITIONS(toLowerCase(ops[i].tokenAddress))
            IN
            /\ ~HasPayload(redisStrings', ops[i].id)
            /\ ops[i].id \notin smembers(redisSets', agentKey)
            /\ ops[i].id \notin smembers(redisSets', tokenKey)
            /\ smembers(redisSets', agentKey) = {} => agentKey \notin DOMAIN redisSets'
            /\ smembers(redisSets', tokenKey) = {} => tokenKey \notin DOMAIN redisSets'

\* C26: when deletePosition(idRef) returns, the payload of idRef.id is
\* absent, idRef.id is in neither the agent index nor the token index of
\* idRef, and an index left without members is not a key of the store; no
\* index key ever holds an empty set.  Checked under SpecPositions.
C26_DeleteRemovesPayloadAndIndexEntries == []NoEmptyIndex /\ [][DeletePostcondition]_vars

\* deletePosition of p3, the only position on token "tb", has returned:
\* the payload is gone and the token index key with it, while the agent
\* index still holds another position
C26_Witness ==
    \E i \in DOMAIN ops :
        /\ ops[i].op = "deletePosition" /\ ops[i].pc = "done" /\ ops[i].id = "p3"
        /\ HasPayload(ops[i].before.strings, "p3")
        /\ TOKEN_POSITIONS(<<"t", "b">>) \in DOMAIN ops[i].before.sets
        /\ TOKEN_POSITIONS(<<"t", "b">>) \notin DOMAIN redisSets
        /\ ~HasPayload(redisStrings, "p3")
        /\ smembers(redisSets, AGENT_POSITIONS("agent-1")) = {"p1"}

\* the ids a wallet sweep has to count: those of the agent index, as the
\* call found it, whose payload is of the wallet or malformed
Countable(o) ==
    {id \in smembers(o.before.sets, AGENT_POSITIONS(o.agentId)) :
        \/ Malformed(o.before.strings, id)
        \/ /\ WellFormed(o.before.strings, id)
           /\ StoredPosition(o.before.strings, id).walletAddress = o.walletAddress}

SweepCount ==
    \A i \in DOMAIN ops :
        Completes(i, "deleteWalletPositions") =>
            /\ ops'[i].deletedCount = Cardinality(Countable(ops[i]))
            /\ ops'[i].deletedCount =
                   Cardinality(DOMAIN ops[i].before.strings \ DOMAIN redisStrings')

\* C27: deleteWalletPositions returns the number of payload keys it
\* removed, which is the number of ids of the agent index whose payload is
\* of the target wallet plus the number whose payload is malformed; ids
\* without a payload and payloads of other wallets add nothing.  Checked
\* under SpecPositions.
C27_SweepReturnsRemovedPayloads == [][SweepCount]_vars

\* the sweep of (agent-1, wallet-1) over the stale p3, p2 of wallet-2 and
\* p1 of wallet-1 has returned 1
C27_Witness ==
    \E i \in DOMAIN ops :
        /\ ops[i].op = "deleteWalletPositions" /\ ops[i].pc = "done"
        /\ ops[i].agentId = "agent-1" /\ ops[i].walletAddress = "wallet-1"
        /\ ops[i].ids = {"p1", "p2", "p3"}
        /\ ~HasPayload(ops[i].before.strings, "p3")
        /\ WellFormed(ops[i].before.strings, "p2") /\ WellFormed(ops[i].before.strings, "p1")
        /\ ops[i].deletedCount = 1
        /\ WellFormed(redisStrings, "p2") /\ ~HasPayload(redisStrings, "p1")
        /\ smembers(redisSets, AGENT_POSITIONS("agent-1")) = {"p2"}

\* the positions a wallet sweep must leave alone: the well-formed payloads
\* of other wallets, and everything outside the agent index it walks
Untouchable(o, strings) ==
    {id \in PosIds :
        \/ id \notin smembers(o.before.sets, AGENT_POSITIONS(o.agentId))
        \/ /\ WellFormed(strings, id)
           /\ StoredPosition(strings, id).walletAddress # o.walletAddress}

SweepFrame ==
    \A i \in DOMAIN ops :
        Steps(i, "deleteWalletPositions") /\ ops[i].pc # "idle" =>
            \A id \in Untouchable(ops[i], redisStrings) :
                /\ HasPayload(redisStrings, id) =>
                       /\ HasPayload(redisStrings', id)
                       /\ redisStrings'[POSITION(id)] = redisStrings[POSITION(id)]
                /\ ~HasPayload(redisStrings, id) => ~HasPayload(redisStrings', id)
                /\ IndexKeysOf(redisSets', id) = IndexKeysOf(redisSets, id)

\* C28: deleteWalletPositions(agentId, wallet) leaves every well-formed
\* payload of the agent whose walletAddress differs from the target as it
\* is, with its id in the agent index and in its token index, and touches
\* no position outside the agent's index.  Checked under SpecPositions.
C28_SweepLeavesOtherWallets == [][SweepFrame]_vars

\* the sweep of (agent-1, wallet-1) has removed p1 and p3 and returned,
\* with p2 of wallet-2 and p4 of agent-2 as they were
C28_Witness ==
    \E i \in DOMAIN ops :
        /\ ops[i].op = "deleteWalletPositions" /\ ops[i].pc = "done"
        /\ ops[i].agentId = "agent-1" /\ ops[i].walletAddress = "wallet-1"
        /\ ops[i].deletedCount = 2
        /\ WellFormed(ops[i].before.strings, "p2") /\ WellFormed(ops[i].before.strings, "p4")
        /\ redisStrings[POSITION("p2")] = ops[i].before.strings[POSITION("p2")]
        /\ redisStrings[POSITION("p4")] = ops[i].before.strings[POSITION("p4")]
        /\ IndexKeysOf(redisSets, "p2") = {AGENT_POSITIONS("agent-1"), TOKEN_POSITIONS(<<"t", "a">>)}
        /\ IndexKeysOf(redisSets, "p4") = {AGENT_POSITIONS("agent-2"), TOKEN_POSITIONS(<<"t", "a">>)}

GetFrame ==
    \A i \in DOMAIN ops :
        Steps(i, "getPosition") =>
            /\ redisStrings' = redisStrings /\ redisSets' = redisSets
            /\ Completes(i, "getPosition") =>
                   /\ ops'[i].outcome = "returned"
                   /\ ~WellFormed(redisStrings, ops[i].id) => ops'[i].result = NullPosition

\* C29: getPosition(id) never throws because of what is stored: for a
\* missing payload and for a malformed one it returns null, and no step of
\* it changes the payloads or the indexes.  Checked under SpecPositions.
C29_GetNeverRaises == [][GetFrame]_vars

\* getPosition of p2 has returned null over a payload that is not JSON,
\* which is still stored
C29_Witness ==
    \E i \in DOMAIN ops :
        /\ ops[i].op = "getPosition" /\ ops[i].pc = "done" /\ ops[i].id = "p2"
        /\ ops[i].outcome = "returned" /\ ops[i].result = NullPosition
        /\ HasPayload(redisStrings, "p2") /\ redisStrings[POSITION("p2")] = NotJson
        /\ "p2" \in smembers(redisSets, AGENT_POSITIONS("agent-1"))

\* C30: a setPosition and a deletePosition of two different positions that
\* share an index may overlap in any way: once both have returned, the
\* payload of the position that was set exists and its id is in its agent
\* index and in its token index.  Checked under SpecPositionsRace.
C30_SetSurvivesUnrelatedDelete ==
    \A i, j \in DOMAIN ops :
        /\ ops[i].op = "setPosition" /\ ops[i].pc = "done"
        /\ ops[j].op = "deletePosition" /\ ops[j].pc = "done"
        /\ ops[i].id # ops[j].id
        => /\ HasPayload(redisStrings, ops[i].id)
           /\ ops[i].id \in smembers(redisSets, AGENT_POSITIONS(ops[i].agentId))
           /\ ops[i].id \in smembers(redisSets, TOKEN_POSITIONS(toLowerCase(ops[i].tokenAddress)))

\* the token index keys of the store
TokenIndexKeys(sets) == {k \in DOMAIN sets : k[1] = "token_positions"}

SweepToleratesRejection ==
    \A i \in DOMAIN ops :
        Completes(i, "deleteWalletPositions") =>
            /\ ops[i].cur # "" => ops'[i].outcome = "returned"
            /\ ops'[i].outcome = "returned" =>
                   /\ ops'[i].deletedCount <= Cardinality(Countable(ops[i]))
                   /\ ops'[i].deletedCount =
                          Cardinality(DOMAIN ops[i].before.strings \ DOMAIN redisStrings')

\* C31: a command of the store that rejects while deleteWalletPositions
\* has an id of the agent index in hand does not fail the call: the call
\* goes on to the remaining ids and returns, and the count it returns is
\* the number of payload keys it removed, at most the number of ids it had
\* to count.  Checked under SpecPositionsFaulty.
C31_PartialFailureTolerated == [][SweepToleratesRejection]_vars

SelfHealed ==
    \A i \in DOMAIN ops :
        Completes(i, "deleteWalletPositions") =>
            LET agentKey == AGENT_POSITIONS(ops[i].agentId) IN
            /\ \A id \in smembers(redisSets', agentKey) :
                   /\ WellFormed(redisStrings', id)
                   /\ StoredPosition(redisStrings', id).walletAddress # ops[i].walletAddress
            /\ smembers(redisSets', agentKey) = {} => agentKey \notin DOMAIN redisSets'

\* C35: when deleteWalletPositions(agentId, wallet) returns, with no other
\* call in flight, every id left in the agent index has a well-formed
\* payload of another wallet, and the agent index is not a key of the store
\* when no id is left.  Checked under SpecPositions.
C35_AgentIndexSelfHealed == [][SelfHealed]_vars

\* the sweep of (agent-1, wallet-2) has returned 0 over an agent index that
\* held only the stale p1 and p3: the index key is gone
C35_Witness ==
    \E i \in DOMAIN ops :
        /\ ops[i].op = "deleteWalletPositions" /\ ops[i].pc = "done"
        /\ ops[i].agentId = "agent-1" /\ ops[i].walletAddress = "wallet-2"
        /\ ops[i].ids = {"p1", "p3"}
        /\ ~HasPayload(ops[i].before.strings, "p1") /\ ~HasPayload(ops[i].before.strings, "p3")
        /\ ops[i].deletedCount = 0
        /\ AGENT_POSITIONS("agent-1") \notin DOMAIN redisSets

\* the ids a bulk delete has removed: those whose payload it deleted and
\* those it dropped from the agent index
RemovedIds(o, strings, sets) ==
    {id \in PosIds :
        \/ HasPayload(o.before.strings, id) /\ ~HasPayload(strings, id)
        \/ /\ id \in smembers(o.before.sets, AGENT_POSITIONS(o.agentId))
           /\ id \notin smembers(sets, AGENT_POSITIONS(o.agentId))}

NoDanglingTokenEntry ==
    \A i \in DOMAIN ops :
        Completes(i, "deleteAgentPositions") \/ Completes(i, "deleteWalletPositions") =>
            \A id \in RemovedIds(ops[i], redisStrings', redisSets') :
                IndexKeysOf(redisSets', id) \cap TokenIndexKeys(redisSets') = {}

\* C36: when deleteAgentPositions or deleteWalletPositions returns, no id
\* whose payload it deleted and no id it dropped from the agent index is
\* left in a token index, also when the payload was malformed or missing.
\* Checked under SpecPositions.
C36_NoDanglingTokenIndexEntry == [][NoDanglingTokenEntry]_vars

AgentSweep ==
    \A i \in DOMAIN ops :
        Completes(i, "deleteAgentPositions") =>
            LET agentKey == AGENT_POSITIONS(ops[i].agentId)
                positionIds == smembers(ops[i].before.sets, agentKey)
            IN
            /\ ops'[i].outcome = "returned"
            /\ \A id \in positionIds : ~HasPayload(redisStrings', id)
            /\ agentKey \notin DOMAIN redisSets'
            /\ positionIds = {} =>
                   /\ redisStrings' = ops[i].before.strings
                   /\ redisSets' = ops[i].before.sets

\* C37: deleteAgentPositions(agentId) returns also over malformed
\* payloads: when it does, no id that was in the agent index has a payload
\* and the agent index is not a key of the store; over an empty agent
\* index it leaves the store as it was.  Checked under SpecPositions.
C37_AgentSweepNotAborted == [][AgentSweep]_vars

\* deleteAgentPositions(agent-1) has returned over a payload that is not
\* JSON (p1), the JSON text null (p2) and a well-formed payload (p3)
C37_Witness ==
    \E i \in DOMAIN ops :
        /\ ops[i].op = "deleteAgentPositions" /\ ops[i].pc = "done"
        /\ ops[i].agentId = "agent-1" /\ ops[i].outcome = "returned"
        /\ ops[i].ids = {"p1", "p2", "p3"}
        /\ HasPayload(ops[i].before.strings, "p1")
        /\ ops[i].before.strings[POSITION("p1")] = NotJson
        /\ HasPayload(ops[i].before.strings, "p2")
        /\ ops[i].before.strings[POSITION("p2")] = JSONstringify(NullPosition)
        /\ WellFormed(ops[i].before.strings, "p3")
        /\ \A id \in {"p1", "p2", "p3"} : ~HasPayload(redisStrings, id)
        /\ AGENT_POSITIONS("agent-1") \notin DOMAIN redisSets

====
